---- MODULE Spec2Model ----
(***************************************************************************)
(* VideyLib-Desktop: the asynchronous media ingestion pipeline.            *)
(*                                                                         *)
(* Threads of the program:                                                 *)
(*   - the GUI thread (MainWindow): runs load_videos_in_folder and, when   *)
(*     it is back in the Qt event loop, the slots connected to the three   *)
(*     signals (add_video_to_grid, update_video_thumbnail,                 *)
(*     update_load_progress);                                              *)
(*   - one loader thread per load request (MainWindow._load_videos_async); *)
(*   - the workers of video_utils._thread_pool, which run                  *)
(*     extract_thumbnail and the callback that emits                       *)
(*     thumbnail_loaded_signal.                                            *)
(* A signal emitted off the GUI thread is a queued connection: the event   *)
(* is appended to the GUI thread's event queue and handled in FIFO order.  *)
(***************************************************************************)
EXTENDS Integers, Sequences, FiniteSets, TLC

\* ---------------------------------------------------------------- bounds
\* longest folder listing given to the extension filter
MaxListing == 3
\* direct calls of get_video_metadata, with the changes made to the file
\* between them
MaxCalls == 3
\* direct calls of extract_thumbnail on one file
MaxExtracts == 2

\* number of load_videos_in_folder calls in one run
MaxLoads == 2

\* ---------------------------------------------------- program constants
_CACHE_SIZE_LIMIT == 100
LRU_MAXSIZE == 100
POOL_WORKERS == 4
DEFAULT_WIDTH == 1280
DEFAULT_HEIGHT == 720
DEFAULT_DURATION == 60
FALLBACK_FPS == 30
THUMB_W == 320
THUMB_H == 180
\* position=0.1, kept in tenths
THUMB_POSITION == 1
\* files above this size are sought 5 s in, the others 1 s in, when the
\* frame count is unknown
SEEK_SIZE_LIMIT == 10000000
SEEK_LONG_MSEC == 5000
SEEK_SHORT_MSEC == 1000
\* size of the thumbnails of the preview strip
PREVIEW_W == 160
PREVIEW_H == 90

None == [tag |-> "None"]

\* File names and extensions are handled letter by letter: a name is the
\* sequence of its characters.
SUPPORTED_VIDEO_EXTENSIONS ==
    {<<".", "m", "p", "4">>, <<".", "m", "k", "v">>, <<".", "a", "v", "i">>,
     <<".", "m", "o", "v">>, <<".", "w", "m", "v">>, <<".", "f", "l", "v">>,
     <<".", "w", "e", "b", "m">>, <<".", "m", "4", "v">>,
     <<".", "m", "p", "e", "g">>, <<".", "m", "p", "g">>,
     <<".", "3", "g", "p">>, <<".", "3", "g", "2">>}

\* ------------------------------------------------------ the file system
\* The folders on disk and what os.listdir returns for them. A and B hold
\* one video each, C holds three, E holds none.
Folders == {"A", "B"}
ScanFolder == "C"
EmptyFolder == "E"
\* a folder with more videos than the pool has workers
PoolFolder == "D"

listdir(folder) ==
    CASE folder = "A" -> <<"n.txt", "a1.mp4">>
      [] folder = "B" -> <<"b1.avi">>
      [] folder = "C" -> <<"c1.MKV", "c2.mp4", "c3.avi">>
      [] folder = "D" -> <<"d1.mp4", "d2.mp4", "d3.mp4", "d4.mp4", "d5.mp4">>
      [] OTHER        -> <<"readme.txt">>

\* The spelling of every file name that occurs: scanned folders first,
\* then the names used to exercise the extension filter.
Chars ==
    [name \in {"n.txt", "a1.mp4", "b1.avi", "c1.MKV", "c2.mp4", "c3.avi",
               "d1.mp4", "d2.mp4", "d3.mp4", "d4.mp4", "d5.mp4",
               "readme.txt", "a.mp4", "b.txt", "c.mkv", "d.MP4", "e.Mkv",
               "f.avi", "g.mov", "h.wmv", "i.flv", "j.webm", "k.m4v", "l.mpeg",
               "m.mpg", "n.3gp", "o.3G2", "p.mp3", "q.mp4.txt", "mp4",
               "r.mp", "s.mp44", "t."} |->
        CASE name = "n.txt"      -> <<"n", ".", "t", "x", "t">>
          [] name = "a1.mp4"     -> <<"a", "1", ".", "m", "p", "4">>
          [] name = "b1.avi"     -> <<"b", "1", ".", "a", "v", "i">>
          [] name = "d1.mp4"     -> <<"d", "1", ".", "m", "p", "4">>
          [] name = "d2.mp4"     -> <<"d", "2", ".", "m", "p", "4">>
          [] name = "d3.mp4"     -> <<"d", "3", ".", "m", "p", "4">>
          [] name = "d4.mp4"     -> <<"d", "4", ".", "m", "p", "4">>
          [] name = "d5.mp4"     -> <<"d", "5", ".", "m", "p", "4">>
          [] name = "c1.MKV"     -> <<"c", "1", ".", "M", "K", "V">>
          [] name = "c2.mp4"     -> <<"c", "2", ".", "m", "p", "4">>
          [] name = "c3.avi"     -> <<"c", "3", ".", "a", "v", "i">>
          [] name = "readme.txt" -> <<"r", "e", "a", "d", "m", "e", ".", "t", "x", "t">>
          [] name = "a.mp4"      -> <<"a", ".", "m", "p", "4">>
          [] name = "b.txt"      -> <<"b", ".", "t", "x", "t">>
          [] name = "c.mkv"      -> <<"c", ".", "m", "k", "v">>
          [] name = "d.MP4"      -> <<"d", ".", "M", "P", "4">>
          [] name = "e.Mkv"      -> <<"e", ".", "M", "k", "v">>
          [] name = "f.avi"      -> <<"f", ".", "a", "v", "i">>
          [] name = "g.mov"      -> <<"g", ".", "m", "o", "v">>
          [] name = "h.wmv"      -> <<"h", ".", "w", "m", "v">>
          [] name = "i.flv"      -> <<"i", ".", "f", "l", "v">>
          [] name = "j.webm"     -> <<"j", ".", "w", "e", "b", "m">>
          [] name = "k.m4v"      -> <<"k", ".", "m", "4", "v">>
          [] name = "l.mpeg"     -> <<"l", ".", "m", "p", "e", "g">>
          [] name = "m.mpg"      -> <<"m", ".", "m", "p", "g">>
          [] name = "n.3gp"      -> <<"n", ".", "3", "g", "p">>
          [] name = "o.3G2"      -> <<"o", ".", "3", "G", "2">>
          [] name = "p.mp3"      -> <<"p", ".", "m", "p", "3">>
          [] name = "q.mp4.txt"  -> <<"q", ".", "m", "p", "4", ".", "t", "x", "t">>
          [] name = "mp4"        -> <<"m", "p", "4">>
          [] name = "r.mp"       -> <<"r", ".", "m", "p">>
          [] name = "s.mp44"     -> <<"s", ".", "m", "p", "4", "4">>
          [] name = "t."         -> <<"t", ".">>]

\* os.path.splitext(...)[1] of a name without separators: from the last
\* dot on, unless there is no dot or only dots come before it
splitext(name) ==
    LET dots == {k \in 1..Len(name) : name[k] = "."}
        last == CHOOSE k \in dots : \A d \in dots : d <= k
    IN  IF dots = {} THEN <<>>
        ELSE IF \A k \in 1..(last - 1) : name[k] = "." THEN <<>>
        ELSE SubSeq(name, last, Len(name))

\* A conversion that leaves capitals as they are.
lower_as_is(ext) == ext

\* str.lower, letter by letter
lower(ext) ==
    LET low(c) == CASE c = "A" -> "a" [] c = "B" -> "b" [] c = "C" -> "c" [] c = "D" -> "d"
                    [] c = "E" -> "e" [] c = "F" -> "f" [] c = "G" -> "g" [] c = "H" -> "h"
                    [] c = "I" -> "i" [] c = "J" -> "j" [] c = "K" -> "k" [] c = "L" -> "l"
                    [] c = "M" -> "m" [] c = "N" -> "n" [] c = "O" -> "o" [] c = "P" -> "p"
                    [] c = "Q" -> "q" [] c = "R" -> "r" [] c = "S" -> "s" [] c = "T" -> "t"
                    [] c = "U" -> "u" [] c = "V" -> "v" [] c = "W" -> "w" [] c = "X" -> "x"
                    [] c = "Y" -> "y" [] c = "Z" -> "z"
                    [] OTHER -> c
    IN  [k \in 1..Len(ext) |-> low(ext[k])]

\* is_video_file, on the file name
is_video_file(name) == lower(splitext(Chars[name])) \in SUPPORTED_VIDEO_EXTENSIONS

\* line 427: the video files of a listing, in listing order
video_files_of(files) == SelectSeq(files, is_video_file)

\* os.path.join(folder_path, file_name)
join(folder, name) == [folder |-> folder, name |-> name]

Paths == {join(f, listdir(f)[k]) : <<f, k>> \in
             {x \in {"A", "B", "C", "D", "E"} \X (1..5) : x[2] <= Len(listdir(x[1]))}}

\* What is on disk at a path: whether cv2.VideoCapture raises, whether it
\* opens the file, what it reports, whether cap.read() yields a frame, and
\* os.path.getsize.
File(present, raises, opened, readable, width, height, fps, frame_count, size) ==
    [present |-> present, raises |-> raises, opened |-> opened,
     readable |-> readable, width |-> width, height |-> height, fps |-> fps,
     frame_count |-> frame_count, size |-> size]

\* The files of the scanned folders: a1 and c2 are healthy files, c1 cannot
\* be opened, b1 and c3 open but report no size and no frames and yield no
\* frame.
Container(path) ==
    CASE path.name \in {"a1.mp4", "c2.mp4"} ->
           File(TRUE, FALSE, TRUE, TRUE, 640, 360, 25, 50, 2)
      [] path.name = "c1.MKV" ->
           File(TRUE, FALSE, FALSE, FALSE, 0, 0, 0, 0, 3)
      [] OTHER ->
           File(TRUE, FALSE, TRUE, FALSE, 0, 0, 0, 0, 4)

\* ------------------------------------------------------------ variables
VARIABLES
    \* MainWindow fields
    _loading_thread,     \* 0 is None, otherwise the id of a loader thread
    _loading_canceled,
    \* GUI thread: position inside load_videos_in_folder, its argument,
    \* the thread object it is joining
    mpc, marg, mjoin,
    nloads,              \* load requests made so far
    uncaught,            \* an exception has left load_videos_in_folder
    \* loader threads, indexed 1..MaxLoads
    lpc, lfolder, lfiles, li, lvideo_data, lmetadata, ltags, lexit,
    \* Database: videos table (a set of rows), video_tags, AUTOINCREMENT,
    \* notes (<<video_id, content>>) and reviews (<<video_id, rating>>)
    videos, video_tags, next_id, notes, reviews,
    \* video_utils module state
    lru_cache, _metadata_cache, _thumbnail_cache,
    pool_queue, pool_running,
    \* Qt: the queued signal events of the GUI thread, oldest first
    events,
    \* VideoGrid model rows, progress bar, status bar, recent folders
    grid, progress_bar, status_msg, recent_folders,
    \* history (a record): per loader and in order, its add_video calls
    \* (added), probes (probed), catalog hits (found), pool submissions
    \* (submitted) and emitted events (emitted); the events the GUI thread
    \* has handled (delivered); the pairs <<old loader, new request>> of a
    \* load request made while the old loader was alive (superseded)
    hist,
    \* the files outside the scanned folders (path -> what is on disk)
    fs,
    \* the calls made directly to the functions of video_utils and to the
    \* listing filter, in order, each with what it returned
    calls,
    \* where each thread stands inside the cache insert of the call it is
    \* making, when the statements of the insert are taken one by one
    tstate

mainVars == <<_loading_thread, _loading_canceled, mpc, marg, mjoin, nloads, uncaught>>
loaderVars == <<lpc, lfolder, lfiles, li, lvideo_data, lmetadata, ltags, lexit>>
dbVars == <<videos, video_tags, next_id, notes, reviews>>
cacheVars == <<lru_cache, _metadata_cache, _thumbnail_cache>>
poolVars == <<pool_queue, pool_running>>
uiVars == <<grid, progress_bar, status_msg, recent_folders>>
utilVars == <<fs, calls, tstate>>
vars_program == <<mainVars, loaderVars, dbVars, cacheVars, poolVars, events,
                  uiVars, hist>>
vars == <<vars_program, utilVars>>

Loaders == 1..MaxLoads

\* the threads that insert into the caches: the workers of _thread_pool
\* (extract_thumbnail) and the loader threads (get_video_metadata)
PoolThreads == {<<"worker", n>> : n \in 1..POOL_WORKERS}
LoaderThreads == {<<"loader", l>> : l \in Loaders}
CacheThreads == PoolThreads \cup LoaderThreads

\* a thread that is not inside a call
IdleThread == [pc |-> "idle", key |-> None, value |-> None]

\* threading.Thread.is_alive(): started and run() has not returned
is_alive(l) == lpc[l] \notin {"none", "dead"}

\* ------------------------------------------------------------- Database
\* the rows of a videos table that hold a path
rows_with(table, path) == {r \in table : r.file_path = path}

\* Database.get_video_by_path: SELECT ... WHERE file_path = ? and fetchone:
\* the first matching row of the videos table (lowest rowid), or None
get_video_by_path(path) ==
    IF rows_with(videos, path) = {} THEN None
    ELSE CHOOSE r \in rows_with(videos, path) :
             \A q \in rows_with(videos, path) : r.id <= q.id

\* An INSERT that does not look at the rows already stored.
insert_plain(table, row) == table \cup {row}

\* INSERT OR REPLACE with file_path UNIQUE: the rows that hold the new
\* row's path are deleted, then the new row is inserted
insert_or_replace(table, row) ==
    {r \in table : r.file_path # row.file_path} \cup {row}

\* Database.get_video_tags: names of the tags linked to a video id
get_video_tags(video_id) == {vt[2] : vt \in {x \in video_tags : x[1] = video_id}}

\* Database.add_video: INSERT OR REPLACE on the UNIQUE file_path column. A
\* row with the same path is deleted and a fresh row inserted; AUTOINCREMENT
\* never reuses an id; watched takes its DEFAULT 0. Foreign keys are not
\* switched on, so video_tags rows of a replaced row stay behind.
add_video_row(path, name, folder, size, duration, date_added, date_modified) ==
    [tag |-> "row", id |-> next_id, file_path |-> path, file_name |-> name,
     folder_path |-> folder, size |-> size, duration |-> duration,
     watched |-> 0, date_added |-> date_added, date_modified |-> date_modified]

\* ---------------------------------------------------------- video_utils
\* os.path.exists: every listed file stays on disk; the other files are
\* what fs says
exists(path) == IF path \in DOMAIN fs THEN fs[path].present ELSE path \in Paths

\* the elements of a finite set in some order
RECURSIVE SeqOf(_)
SeqOf(S) == IF S = {} THEN <<>>
            ELSE LET x == CHOOSE y \in S : TRUE IN <<x>> \o SeqOf(S \ {x})

\* os.listdir(folder) now: the names of the folder that are still there,
\* then the names of the files that have come into it
os_listdir(folder) ==
    LET stays(name) == exists(join(folder, name))
        came == {q.name : q \in {q \in DOMAIN fs : /\ q.folder = folder
                                                  /\ fs[q].present
                                                  /\ q \notin Paths}}
    IN  SelectSeq(listdir(folder), stays) \o SeqOf(came)

\* cv2.VideoCapture(path) and os.path.getsize(path)
VideoCapture(path) == IF path \in DOMAIN fs THEN fs[path] ELSE Container(path)

Meta(width, height, fps, duration, size) ==
    [tag |-> "meta", width |-> width, height |-> height, fps |-> fps,
     duration |-> duration, size |-> size,
     date_modified |-> "mtime", date_created |-> "ctime"]

\* Defaults put in place of all three values as soon as one is missing.
fix_up_all(width, height, duration, size) ==
    IF (width <= 0 \/ height <= 0 \/ duration <= 0) /\ size > 0
    THEN <<DEFAULT_WIDTH, DEFAULT_HEIGHT, DEFAULT_DURATION>>
    ELSE <<width, height, duration>>

\* lines 52-56: defaults for the values that came back zero or negative,
\* when the file is not empty
fix_up(width, height, duration, size) ==
    IF (width <= 0 \/ height <= 0 \/ duration <= 0) /\ size > 0
    THEN <<IF width > 0 THEN width ELSE DEFAULT_WIDTH,
           IF height > 0 THEN height ELSE DEFAULT_HEIGHT,
           IF duration > 0 THEN duration ELSE DEFAULT_DURATION>>
    ELSE <<width, height, duration>>

\* line 50: frame_count / fps. The frame counts of this model's files are
\* multiples of their fps, so the division is exact.
duration_of(c) == IF c.fps > 0 THEN c.frame_count \div c.fps ELSE 0

\* lines 78 and 169: cache[key] = value
dict_set(cache, key, value) ==
    [k \in DOMAIN cache \cup {key} |-> IF k = key THEN value ELSE cache[k]]

\* An insert that never empties the cache.
cache_insert_unbounded(cache, key, value) == dict_set(cache, key, value)

\* lines 75-78 and 166-169 run by one thread with no other thread between
\* them: a cache at its limit is emptied, then the entry is stored
cache_insert(cache, key, value) ==
    LET base == IF Cardinality(DOMAIN cache) >= _CACHE_SIZE_LIMIT
                THEN [k \in {} |-> None] ELSE cache
    IN  dict_set(base, key, value)

\* The body of get_video_metadata (what runs on an lru_cache miss): the
\* value returned, the _metadata_cache it leaves, and whether it opened
\* the container.
metadata_body(path) ==
    LET c == VideoCapture(path)
        fixed == fix_up(c.width, c.height, duration_of(c), c.size)
        result == Meta(fixed[1], fixed[2], c.fps, fixed[3], c.size)
        fallback == Meta(DEFAULT_WIDTH, DEFAULT_HEIGHT, FALLBACK_FPS,
                         DEFAULT_DURATION, c.size)
    IN  IF ~exists(path)
        THEN [result |-> None, cache |-> _metadata_cache, opened |-> FALSE]
        ELSE IF path \in DOMAIN _metadata_cache
        THEN [result |-> _metadata_cache[path], cache |-> _metadata_cache,
              opened |-> FALSE]
        ELSE IF c.raises
        THEN [result |-> fallback, cache |-> _metadata_cache, opened |-> FALSE]
        ELSE IF ~c.opened
        THEN [result |-> None, cache |-> _metadata_cache, opened |-> FALSE]
        ELSE [result |-> result,
              cache |-> cache_insert(_metadata_cache, path, result),
              opened |-> TRUE]

\* functools.lru_cache(maxsize=100) around it: entries in order of use, the
\* least recently used first. A hit returns the stored value, whatever it
\* is, and moves the entry to the end; a miss runs the body, stores what it
\* returned and drops the oldest entry when the cache is over its size.
\* touched: the body ran, so the file system was looked at (line 28).
lru_index(path) ==
    IF \E k \in 1..Len(lru_cache) : lru_cache[k].key = path
    THEN CHOOSE k \in 1..Len(lru_cache) : lru_cache[k].key = path
    ELSE 0

lru_without(k) == SubSeq(lru_cache, 1, k - 1) \o SubSeq(lru_cache, k + 1, Len(lru_cache))

\* the wrapper stores what the body returned
lru_store(path, value) ==
    LET grown == Append(lru_cache, [key |-> path, value |-> value])
    IN  IF Len(grown) > LRU_MAXSIZE THEN Tail(grown) ELSE grown

\* The function without the lru_cache decorator.
get_video_metadata_undecorated(path) ==
    LET b == metadata_body(path)
    IN  [result |-> b.result, lru |-> lru_cache, cache |-> b.cache,
         touched |-> TRUE, opened |-> b.opened]

get_video_metadata(path) ==
    LET k == lru_index(path)
        b == metadata_body(path)
    IN  IF k > 0
        THEN [result |-> lru_cache[k].value,
              lru |-> Append(lru_without(k), lru_cache[k]),
              cache |-> _metadata_cache, touched |-> FALSE, opened |-> FALSE]
        ELSE [result |-> b.result,
              lru |-> lru_store(path, b.result),
              cache |-> b.cache, touched |-> TRUE, opened |-> b.opened]

Pixmap(fill, w, h, of) == [tag |-> "pixmap", fill |-> fill, w |-> w, h |-> h, of |-> of]

\* The pixmap left at the size cv2.resize gave it.
scaled_as_is(w, h, sw, sh) == <<w, h>>

\* QSize.scaled(size, Qt.KeepAspectRatio)
scaled_keep_aspect(w, h, sw, sh) ==
    LET rw == (sh * w) \div h
    IN  IF rw <= sw THEN <<rw, sh>> ELSE <<sw, (sw * h) \div w>>

\* int(x / 10) for an integer x: Python's int() drops the fraction, towards
\* zero
int_tenths(x) == IF x >= 0 THEN x \div 10 ELSE -((-x) \div 10)

\* lines 129-131, position in tenths
target_frame(total_frames, position) ==
    LET t == int_tenths(total_frames * position)
    IN  IF t <= 0 THEN 1 ELSE t

\* lines 116-132: where the capture is positioned before the read
seek_of(c, position) ==
    IF c.frame_count <= 0
    THEN [kind |-> "msec",
          at |-> IF c.size > SEEK_SIZE_LIMIT THEN SEEK_LONG_MSEC ELSE SEEK_SHORT_MSEC]
    ELSE [kind |-> "frame", at |-> target_frame(c.frame_count, position)]

\* A gray image of the default size, whatever size was asked for.
placeholder_default_size(sw, sh) == Pixmap("darkGray", THUMB_W, THUMB_H, None)

\* QPixmap(size) filled with Qt.darkGray (lines 110-111, 139-140, 175-176)
placeholder(sw, sh) == Pixmap("darkGray", sw, sh, None)

\* line 100: the key of a thumbnail in _thumbnail_cache
thumbnail_key(path, position, sw, sh) ==
    [path |-> path, position |-> position, w |-> sw, h |-> sh]

\* An extract_thumbnail that stores the placeholder like a frame.
extract_thumbnail_keeps_placeholder(path, position, sw, sh) ==
    LET cache_key == thumbnail_key(path, position, sw, sh)
        c == VideoCapture(path)
        seek == seek_of(c, position)
        w == c.width
        h == c.height
        new_w == IF w > h THEN sw ELSE IF h > 0 THEN (sh * w) \div h ELSE 0
        new_h == IF w > h THEN (sw * h) \div w ELSE sh
        resizable == w > 0 /\ h > 0 /\ new_w > 0 /\ new_h > 0
        fit == IF resizable /\ (new_w # sw \/ new_h # sh)
               THEN scaled_keep_aspect(new_w, new_h, sw, sh)
               ELSE <<new_w, new_h>>
        pixmap == Pixmap("frame", fit[1], fit[2], [path |-> path, seek |-> seek])
    IN  IF ~exists(path)
        THEN [result |-> None, cache |-> _thumbnail_cache, seek |-> None, stored |-> FALSE]
        ELSE IF cache_key \in DOMAIN _thumbnail_cache
        THEN [result |-> _thumbnail_cache[cache_key], cache |-> _thumbnail_cache,
              seek |-> None, stored |-> FALSE]
        ELSE IF c.raises \/ ~c.opened
        THEN [result |-> placeholder(sw, sh),
              cache |-> cache_insert(_thumbnail_cache, cache_key, placeholder(sw, sh)),
              seek |-> None, stored |-> TRUE]
        ELSE IF ~c.readable \/ ~resizable
        THEN [result |-> placeholder(sw, sh),
              cache |-> cache_insert(_thumbnail_cache, cache_key, placeholder(sw, sh)),
              seek |-> seek, stored |-> TRUE]
        ELSE [result |-> pixmap,
              cache |-> cache_insert(_thumbnail_cache, cache_key, pixmap),
              seek |-> seek, stored |-> TRUE]

\* extract_thumbnail(file_path, position, size), position in tenths: the
\* value returned, the _thumbnail_cache it leaves, whether the value was stored
\* in it, and the seek made on the capture (None when the function returned
\* before it). A frame of zero
\* width or height makes lines 146-155 raise, which the except branch
\* turns into the placeholder; so does cv2.resize (line 155) when the
\* size computed for it has a zero in it.
extract_thumbnail(path, position, sw, sh) ==
    LET cache_key == thumbnail_key(path, position, sw, sh)
        c == VideoCapture(path)
        seek == seek_of(c, position)
        w == c.width
        h == c.height
        new_w == IF w > h THEN sw ELSE IF h > 0 THEN (sh * w) \div h ELSE 0
        new_h == IF w > h THEN (sw * h) \div w ELSE sh
        resizable == w > 0 /\ h > 0 /\ new_w > 0 /\ new_h > 0
        fit == IF resizable /\ (new_w # sw \/ new_h # sh)
               THEN scaled_keep_aspect(new_w, new_h, sw, sh)
               ELSE <<new_w, new_h>>
        pixmap == Pixmap("frame", fit[1], fit[2], [path |-> path, seek |-> seek])
    IN  IF ~exists(path)
        THEN [result |-> None, cache |-> _thumbnail_cache, seek |-> None, stored |-> FALSE]
        ELSE IF cache_key \in DOMAIN _thumbnail_cache
        THEN [result |-> _thumbnail_cache[cache_key], cache |-> _thumbnail_cache,
              seek |-> None, stored |-> FALSE]
        ELSE IF c.raises \/ ~c.opened
        THEN [result |-> placeholder(sw, sh), cache |-> _thumbnail_cache,
              seek |-> None, stored |-> FALSE]
        ELSE IF ~c.readable \/ ~resizable
        THEN [result |-> placeholder(sw, sh), cache |-> _thumbnail_cache,
              seek |-> seek, stored |-> FALSE]
        ELSE [result |-> pixmap,
              cache |-> cache_insert(_thumbnail_cache, cache_key, pixmap),
              seek |-> seek, stored |-> TRUE]

\* --------------------------------------------------------------- events
\* The req field is not part of the program's signal: it records which load
\* request's thread emitted the event.
VideoLoadedEvent(l, path, name, size, duration, watched, tags) ==
    [type |-> "video_loaded", req |-> l, file_path |-> path, file_name |-> name,
     thumbnail |-> None, size |-> size, duration |-> duration,
     watched |-> watched, tags |-> tags]

ThumbnailEvent(l, path, pixmap) ==
    [type |-> "thumbnail_loaded", req |-> l, file_path |-> path, pixmap |-> pixmap]

\* phase is not part of the signal either: the line that emitted it
\* ("start" 310, "file" 376, "final" 380)
ProgressEvent(l, current, total, phase) ==
    [type |-> "load_progress", req |-> l, current |-> current, total |-> total,
     phase |-> phase]

\* Signal.emit from a thread other than the GUI thread: queued connection
emit(q, e) == Append(q, e)

\* ----------------------------------------------------------------- Init
\* b1.avi and c3.avi were catalogued by an earlier session (watched,
\* tagged), with the size and duration the file had then; nothing else is
\* catalogued.
Stored(folder, name, id) ==
    [tag |-> "row", id |-> id, file_path |-> join(folder, name),
     file_name |-> name, folder_path |-> folder, size |-> 1, duration |-> 1,
     watched |-> 1, date_added |-> "d0", date_modified |-> "d0"]

InitialVideos == {Stored("B", "b1.avi", 1), Stored("C", "c3.avi", 2)}

InitNoCaches ==
    /\ _loading_thread = 0
    /\ _loading_canceled = FALSE
    /\ mpc = "idle" /\ marg = "A" /\ mjoin = 0
    /\ nloads = 0
    /\ uncaught = FALSE
    /\ lpc = [l \in Loaders |-> "none"]
    /\ lfolder = [l \in Loaders |-> "A"]
    /\ lfiles = [l \in Loaders |-> <<>>]
    /\ li = [l \in Loaders |-> 0]
    /\ lvideo_data = [l \in Loaders |-> None]
    /\ lmetadata = [l \in Loaders |-> None]
    /\ ltags = [l \in Loaders |-> {}]
    /\ lexit = [l \in Loaders |-> "none"]
    /\ videos = InitialVideos
    /\ video_tags = {<<1, "fav">>, <<2, "fav">>}
    /\ next_id = 3
    /\ notes = {<<1, "seen twice">>}
    /\ reviews = {<<1, 5>>}
    /\ pool_queue = <<>>
    /\ pool_running = {}
    /\ events = <<>>
    /\ grid = <<>>
    /\ progress_bar = [visible |-> FALSE, value |-> 0, label |-> <<>>]
    /\ status_msg = ""
    /\ recent_folders = <<>>
    /\ hist = [added |-> [l \in Loaders |-> <<>>],
               probed |-> [l \in Loaders |-> <<>>],
               found |-> [l \in Loaders |-> <<>>],
               submitted |-> [l \in Loaders |-> <<>>],
               emitted |-> [l \in Loaders |-> <<>>],
               delivered |-> {},
               superseded |-> {},
               status |-> <<>>,
               raised |-> {},
               listfail |-> {}]
    /\ calls = <<>>
    /\ tstate = [t \in CacheThreads |-> IdleThread]

\* the module has just been imported: the three caches are empty
InitProgram ==
    /\ InitNoCaches
    /\ lru_cache = <<>>
    /\ _metadata_cache = [p \in {} |-> None]
    /\ _thumbnail_cache = [p \in {} |-> None]

\* no file outside the scanned folders
NoFiles == [p \in {} |-> None]

Init == InitProgram /\ fs = NoFiles

\* -------------------------------------------- GUI thread: load request
\* Settings.add_recent_folder
add_recent_folder(recent, folder) ==
    LET rest == SelectSeq(recent, LAMBDA f : f # folder)
        grown == <<folder>> \o rest
    IN  IF Len(grown) > 10 THEN SubSeq(grown, 1, 10) ELSE grown

\* load_videos_in_folder, lines 387-393: called from the event loop (folder
\* selected, recent folder, refresh); every folder offered is a directory.
\* First read of self._loading_thread ("is not None").
MainLoad(folder) ==
    /\ mpc = "idle"
    /\ nloads < MaxLoads
    /\ nloads' = nloads + 1
    /\ marg' = folder
    /\ mpc' = IF _loading_thread # 0 THEN "is_alive" ELSE "reset"
    /\ UNCHANGED <<_loading_thread, _loading_canceled, mjoin, uncaught, loaderVars,
                   dbVars, cacheVars, poolVars, events, uiVars, hist>>

\* lines 393-394: second read of self._loading_thread, for .is_alive(). The
\* loader may have stored None in between: None.is_alive() raises
\* AttributeError, which nothing in load_videos_in_folder catches.
MainIsAlive ==
    /\ mpc = "is_alive"
    /\ IF _loading_thread = 0
       THEN /\ uncaught' = TRUE
            /\ mpc' = "idle"
            /\ hist' = [hist EXCEPT !.raised = @ \cup {<<nloads, "AttributeError">>}]
            /\ UNCHANGED _loading_canceled
       ELSE IF is_alive(_loading_thread)
       THEN /\ _loading_canceled' = TRUE
            /\ mpc' = "join"
            /\ hist' = [hist EXCEPT !.superseded = @ \cup {<<_loading_thread, nloads>>}]
            /\ UNCHANGED uncaught
       ELSE /\ mpc' = "reset"
            /\ UNCHANGED <<_loading_canceled, uncaught, hist>>
    /\ UNCHANGED <<_loading_thread, marg, mjoin, nloads, loaderVars, dbVars, cacheVars,
                   poolVars, events, uiVars>>

\* line 395: third read of self._loading_thread, for .join(1)
MainJoin ==
    /\ mpc = "join"
    /\ IF _loading_thread = 0
       THEN /\ uncaught' = TRUE
            /\ mpc' = "idle"
            /\ hist' = [hist EXCEPT !.raised = @ \cup {<<nloads, "AttributeError">>}]
            /\ UNCHANGED mjoin
       ELSE /\ mjoin' = _loading_thread
            /\ mpc' = "joining"
            /\ UNCHANGED <<uncaught, hist>>
    /\ UNCHANGED <<_loading_thread, _loading_canceled, marg, nloads, loaderVars, dbVars,
                   cacheVars, poolVars, events, uiVars>>

\* join(1) returns because the thread has ended
MainJoinExit ==
    /\ mpc = "joining"
    /\ ~is_alive(mjoin)
    /\ mpc' = "reset"
    /\ mjoin' = 0
    /\ UNCHANGED <<_loading_thread, _loading_canceled, marg, nloads, uncaught, loaderVars,
                   dbVars, cacheVars, poolVars, events, uiVars, hist>>

\* join(1) returns because the second has passed with the thread still alive
MainJoinTimeout ==
    /\ mpc = "joining"
    /\ is_alive(mjoin)
    /\ mpc' = "reset"
    /\ mjoin' = 0
    /\ UNCHANGED <<_loading_thread, _loading_canceled, marg, nloads, uncaught, loaderVars,
                   dbVars, cacheVars, poolVars, events, uiVars, hist>>

\* lines 397-411: reset the flag, recent folders, clear the grid, show the bar
MainReset ==
    /\ mpc = "reset"
    /\ _loading_canceled' = FALSE
    /\ recent_folders' = add_recent_folder(recent_folders, marg)
    /\ grid' = <<>>
    /\ progress_bar' = [progress_bar EXCEPT !.visible = TRUE, !.value = 0]
    /\ status_msg' = "Loading videos"
    /\ mpc' = "listing"
    /\ UNCHANGED <<_loading_thread, marg, mjoin, nloads, uncaught, loaderVars, dbVars,
                   cacheVars, poolVars, events, hist>>

\* lines 413-441: list the folder, keep the video files, start the loader
\* thread of this request (its id is the request's number)
MainStart ==
    /\ mpc = "listing"
    /\ LET video_files == video_files_of(os_listdir(marg))
       IN  IF video_files = <<>>
           THEN /\ status_msg' = "No video files found in this folder."
                /\ progress_bar' = [progress_bar EXCEPT !.visible = FALSE]
                /\ hist' = [hist EXCEPT !.status = Append(@, <<nloads, status_msg'>>)]
                /\ UNCHANGED <<_loading_thread, lpc, lfolder, lfiles>>
           ELSE /\ _loading_thread' = nloads
                /\ lpc' = [lpc EXCEPT ![nloads] = "begin"]
                /\ lfolder' = [lfolder EXCEPT ![nloads] = marg]
                /\ lfiles' = [lfiles EXCEPT ![nloads] = video_files]
                /\ UNCHANGED <<status_msg, progress_bar, hist>>
    /\ mpc' = "idle"
    /\ UNCHANGED <<_loading_canceled, marg, mjoin, nloads, uncaught, li, lvideo_data,
                   lmetadata, ltags, lexit, dbVars, cacheVars, poolVars, events,
                   grid, recent_folders>>

\* lines 413-424: os.listdir raises. PermissionError is caught: a warning
\* box, the status message, the bar hidden, return. Any other OSError
\* (FileNotFoundError when the folder was removed after the isdir check of
\* line 389, NotADirectoryError) is not caught and leaves the method.
MainListError(exc) ==
    /\ mpc = "listing"
    /\ IF exc = "PermissionError"
       THEN /\ status_msg' = "Error accessing folder"
            /\ progress_bar' = [progress_bar EXCEPT !.visible = FALSE]
            /\ hist' = [hist EXCEPT !.status = Append(@, <<nloads, status_msg'>>),
                                    !.listfail = @ \cup {<<nloads, exc>>}]
            /\ UNCHANGED uncaught
       ELSE /\ uncaught' = TRUE
            /\ hist' = [hist EXCEPT !.raised = @ \cup {<<nloads, exc>>},
                                    !.listfail = @ \cup {<<nloads, exc>>}]
            /\ UNCHANGED <<status_msg, progress_bar>>
    /\ mpc' = "idle"
    /\ UNCHANGED <<_loading_thread, _loading_canceled, marg, mjoin, nloads, loaderVars,
                   dbVars, cacheVars, poolVars, events, grid, recent_folders>>

\* ------------------------------------- loader thread: _load_videos_async
total_files(l) == Len(lfiles[l])
file_name(l) == lfiles[l][li[l]]
file_path(l) == join(lfolder[l], file_name(l))

\* A program order in which the thumbnail is scheduled before the item-ready
\* event of the file is emitted.
next_stmt_submit_first(pc) ==
    CASE pc = "begin"      -> "check"
      [] pc = "add"        -> "submit_new"
      [] pc = "submit_new" -> "emit_new"
      [] pc = "emit_new"   -> "progress"
      [] pc = "tags"       -> "submit_old"
      [] pc = "submit_old" -> "emit_old"
      [] pc = "emit_old"   -> "progress"
      [] pc = "progress"   -> "check"
      [] pc = "final"      -> "finally"
      [] pc = "finally"    -> "dead"

\* Program order of the straight-line statements of _load_videos_async:
\* the statement that follows each one.
next_stmt(pc) ==
    CASE pc = "begin"      -> "check"
      [] pc = "add"        -> "emit_new"
      [] pc = "emit_new"   -> "submit_new"
      [] pc = "submit_new" -> "progress"
      [] pc = "tags"       -> "emit_old"
      [] pc = "emit_old"   -> "submit_old"
      [] pc = "submit_old" -> "progress"
      [] pc = "progress"   -> "check"
      [] pc = "final"      -> "finally"
      [] pc = "finally"    -> "dead"

\* a signal emitted by loader l
loader_emit(l, e) ==
    /\ events' = emit(events, e)
    /\ hist' = [hist EXCEPT !.emitted[l] = Append(@, e)]

\* lines 307-310: the initial progress event
LoaderBegin(l) ==
    /\ lpc[l] = "begin"
    /\ loader_emit(l, ProgressEvent(l, 0, total_files(l), "start"))
    /\ li' = [li EXCEPT ![l] = 1]
    /\ lpc' = [lpc EXCEPT ![l] = next_stmt("begin")]
    /\ UNCHANGED <<mainVars, lfolder, lfiles, lvideo_data, lmetadata, ltags, lexit,
                   dbVars, cacheVars, poolVars, uiVars>>

\* A cancellation check that sees the flag and goes on with the file.
LoaderCheck_goes_on(l) ==
    /\ lpc[l] = "check"
    /\ IF li[l] > total_files(l)
       THEN /\ lpc' = [lpc EXCEPT ![l] = "final"]
            /\ lexit' = [lexit EXCEPT ![l] = "exhausted"]
       ELSE /\ lpc' = [lpc EXCEPT ![l] = "lookup"]
            /\ lexit' = IF _loading_canceled THEN [lexit EXCEPT ![l] = "break"]
                        ELSE lexit
    /\ UNCHANGED <<mainVars, lfolder, lfiles, li, lvideo_data, lmetadata, ltags,
                   dbVars, cacheVars, poolVars, events, uiVars, hist>>

\* lines 312-315: next file of the for loop, and the cancellation check
LoaderCheck(l) ==
    /\ lpc[l] = "check"
    /\ IF li[l] > total_files(l)
       THEN /\ lpc' = [lpc EXCEPT ![l] = "final"]
            /\ lexit' = [lexit EXCEPT ![l] = "exhausted"]
       ELSE IF _loading_canceled
       THEN /\ lpc' = [lpc EXCEPT ![l] = "final"]
            /\ lexit' = [lexit EXCEPT ![l] = "break"]
       ELSE /\ lpc' = [lpc EXCEPT ![l] = "lookup"]
            /\ UNCHANGED lexit
    /\ UNCHANGED <<mainVars, lfolder, lfiles, li, lvideo_data, lmetadata, ltags,
                   dbVars, cacheVars, poolVars, events, uiVars, hist>>

\* lines 317-322: look the file up in the catalog
LoaderLookup(l) ==
    /\ lpc[l] = "lookup"
    /\ LET video_data == get_video_by_path(file_path(l))
       IN  /\ lvideo_data' = [lvideo_data EXCEPT ![l] = video_data]
           /\ lpc' = [lpc EXCEPT ![l] = IF video_data = None THEN "probe" ELSE "tags"]
           /\ hist' = IF video_data = None THEN hist
                      ELSE [hist EXCEPT !.found[l] =
                               Append(@, [path |-> file_path(l), row |-> video_data,
                                          tags |-> get_video_tags(video_data.id)])]
    /\ UNCHANGED <<mainVars, lfolder, lfiles, li, lmetadata, ltags, lexit, dbVars,
                   cacheVars, poolVars, events, uiVars>>

\* lines 324-326: probe a file that has no catalog entry
LoaderProbe(l) ==
    /\ lpc[l] = "probe"
    /\ LET r == get_video_metadata(file_path(l))
       IN  /\ lmetadata' = [lmetadata EXCEPT ![l] = r.result]
           /\ lru_cache' = r.lru
           /\ _metadata_cache' = r.cache
           /\ lpc' = [lpc EXCEPT ![l] = IF r.result = None THEN "progress" ELSE "add"]
    /\ hist' = [hist EXCEPT !.probed[l] = Append(@, file_path(l))]
    /\ UNCHANGED <<mainVars, lfolder, lfiles, li, lvideo_data, ltags, lexit, dbVars,
                   _thumbnail_cache, poolVars, events, uiVars>>

\* A loader that goes on to the emit without storing the entry.
LoaderAdd_skipped(l) ==
    /\ lpc[l] = "add"
    /\ lpc' = [lpc EXCEPT ![l] = next_stmt("add")]
    /\ UNCHANGED <<mainVars, lfolder, lfiles, li, lvideo_data, lmetadata, ltags, lexit,
                   dbVars, cacheVars, poolVars, events, uiVars, hist>>

\* lines 328-336: db.add_video
LoaderAdd(l) ==
    /\ lpc[l] = "add"
    /\ videos' = insert_or_replace(videos,
                     add_video_row(file_path(l), file_name(l), lfolder[l],
                                   lmetadata[l].size, lmetadata[l].duration,
                                   lmetadata[l].date_created,
                                   lmetadata[l].date_modified))
    /\ next_id' = next_id + 1
    /\ hist' = [hist EXCEPT !.added[l] = Append(@, [path |-> file_path(l), id |-> next_id])]
    /\ lpc' = [lpc EXCEPT ![l] = next_stmt("add")]
    /\ UNCHANGED <<mainVars, lfolder, lfiles, li, lvideo_data, lmetadata, ltags, lexit,
                   video_tags, notes, reviews, cacheVars, poolVars, events, uiVars>>

\* A loader that puts the new item into the grid itself instead of
\* emitting the signal.
LoaderEmitNew_direct(l) ==
    /\ lpc[l] = "emit_new"
    /\ grid' = Append(grid, [file_path |-> file_path(l), file_name |-> file_name(l),
                             thumbnail |-> None, size |-> lmetadata[l].size,
                             duration |-> lmetadata[l].duration, watched |-> FALSE,
                             tags |-> {}, video_data |-> get_video_by_path(file_path(l))])
    /\ lpc' = [lpc EXCEPT ![l] = next_stmt("emit_new")]
    /\ UNCHANGED <<mainVars, lfolder, lfiles, li, lvideo_data, lmetadata, ltags, lexit,
                   dbVars, cacheVars, poolVars, events, progress_bar, status_msg,
                   recent_folders, hist>>

\* lines 339-347: item-ready event of a new file
LoaderEmitNew(l) ==
    /\ lpc[l] = "emit_new"
    /\ loader_emit(l, VideoLoadedEvent(l, file_path(l), file_name(l), lmetadata[l].size,
                                       lmetadata[l].duration, FALSE, {}))
    /\ lpc' = [lpc EXCEPT ![l] = next_stmt("emit_new")]
    /\ UNCHANGED <<mainVars, lfolder, lfiles, li, lvideo_data, lmetadata, ltags, lexit,
                   dbVars, cacheVars, poolVars, uiVars>>

\* extract_thumbnail_async, line 187: _thread_pool.submit queues the task
\* and returns, whatever the workers are doing
submit(l) ==
    /\ pool_queue' = Append(pool_queue, [req |-> l, path |-> file_path(l)])
    /\ hist' = [hist EXCEPT !.submitted[l] = Append(@, file_path(l))]

\* lines 350-353
LoaderSubmitNew(l) ==
    /\ lpc[l] = "submit_new"
    /\ submit(l)
    /\ lpc' = [lpc EXCEPT ![l] = next_stmt("submit_new")]
    /\ UNCHANGED <<mainVars, lfolder, lfiles, li, lvideo_data, lmetadata, ltags, lexit,
                   dbVars, cacheVars, pool_running, events, uiVars>>

\* line 356: tags of a file that has a catalog entry
LoaderTags(l) ==
    /\ lpc[l] = "tags"
    /\ ltags' = [ltags EXCEPT ![l] = get_video_tags(lvideo_data[l].id)]
    /\ lpc' = [lpc EXCEPT ![l] = next_stmt("tags")]
    /\ UNCHANGED <<mainVars, lfolder, lfiles, li, lvideo_data, lmetadata, lexit,
                   dbVars, cacheVars, poolVars, events, uiVars, hist>>

\* An item-ready event of a catalogued file built from the file on disk
\* instead of the catalog entry.
LoaderEmitOld_from_disk(l) ==
    /\ lpc[l] = "emit_old"
    /\ loader_emit(l, VideoLoadedEvent(l, file_path(l), file_name(l),
                                       Container(file_path(l)).size, DEFAULT_DURATION,
                                       FALSE, {}))
    /\ lpc' = [lpc EXCEPT ![l] = next_stmt("emit_old")]
    /\ UNCHANGED <<mainVars, lfolder, lfiles, li, lvideo_data, lmetadata, ltags, lexit,
                   dbVars, cacheVars, poolVars, uiVars>>

\* lines 359-367: item-ready event of a catalogued file
LoaderEmitOld(l) ==
    /\ lpc[l] = "emit_old"
    /\ loader_emit(l, VideoLoadedEvent(l, file_path(l), file_name(l),
                                       lvideo_data[l].size, lvideo_data[l].duration,
                                       lvideo_data[l].watched # 0, ltags[l]))
    /\ lpc' = [lpc EXCEPT ![l] = next_stmt("emit_old")]
    /\ UNCHANGED <<mainVars, lfolder, lfiles, li, lvideo_data, lmetadata, ltags, lexit,
                   dbVars, cacheVars, poolVars, uiVars>>

\* A catalogued file for which no thumbnail is scheduled.
LoaderSubmitOld_skipped(l) ==
    /\ lpc[l] = "submit_old"
    /\ lpc' = [lpc EXCEPT ![l] = next_stmt("submit_old")]
    /\ UNCHANGED <<mainVars, lfolder, lfiles, li, lvideo_data, lmetadata, ltags, lexit,
                   dbVars, cacheVars, poolVars, events, uiVars, hist>>

\* lines 370-373
LoaderSubmitOld(l) ==
    /\ lpc[l] = "submit_old"
    /\ submit(l)
    /\ lpc' = [lpc EXCEPT ![l] = next_stmt("submit_old")]
    /\ UNCHANGED <<mainVars, lfolder, lfiles, li, lvideo_data, lmetadata, ltags, lexit,
                   dbVars, cacheVars, pool_running, events, uiVars>>

\* A progress event that carries the index i of the file, not i + 1.
LoaderProgress_index(l) ==
    /\ lpc[l] = "progress"
    /\ loader_emit(l, ProgressEvent(l, li[l] - 1, total_files(l), "file"))
    /\ li' = [li EXCEPT ![l] = li[l] + 1]
    /\ lpc' = [lpc EXCEPT ![l] = next_stmt("progress")]
    /\ UNCHANGED <<mainVars, lfolder, lfiles, lvideo_data, lmetadata, ltags, lexit,
                   dbVars, cacheVars, poolVars, uiVars>>

\* line 376: progress event after the file (i + 1 with i counted from 0)
LoaderProgress(l) ==
    /\ lpc[l] = "progress"
    /\ loader_emit(l, ProgressEvent(l, (li[l] - 1) + 1, total_files(l), "file"))
    /\ li' = [li EXCEPT ![l] = li[l] + 1]
    /\ lpc' = [lpc EXCEPT ![l] = next_stmt("progress")]
    /\ UNCHANGED <<mainVars, lfolder, lfiles, lvideo_data, lmetadata, ltags, lexit,
                   dbVars, cacheVars, poolVars, uiVars>>

\* lines 379-380: the final progress event, unless the flag is set now
LoaderFinal(l) ==
    /\ lpc[l] = "final"
    /\ IF ~_loading_canceled
       THEN loader_emit(l, ProgressEvent(l, total_files(l), total_files(l), "final"))
       ELSE UNCHANGED <<events, hist>>
    /\ lpc' = [lpc EXCEPT ![l] = next_stmt("final")]
    /\ UNCHANGED <<mainVars, lfolder, lfiles, li, lvideo_data, lmetadata, ltags, lexit,
                   dbVars, cacheVars, poolVars, uiVars>>

\* lines 384-385: finally, and the thread ends
LoaderFinally(l) ==
    /\ lpc[l] = "finally"
    /\ _loading_thread' = 0
    /\ lpc' = [lpc EXCEPT ![l] = next_stmt("finally")]
    /\ UNCHANGED <<_loading_canceled, mpc, marg, mjoin, nloads, uncaught, lfolder, lfiles,
                   li, lvideo_data, lmetadata, ltags, lexit, dbVars, cacheVars, poolVars,
                   events, uiVars, hist>>

\* lines 382-383: a catalog call (get_video_by_path, add_video,
\* get_video_tags) raises, e.g. sqlite3.OperationalError; the except clause
\* around the whole loop prints it
LoaderStoreError(l) ==
    /\ lpc[l] \in {"lookup", "add", "tags"}
    /\ lpc' = [lpc EXCEPT ![l] = "finally"]
    /\ lexit' = [lexit EXCEPT ![l] = "exception"]
    /\ UNCHANGED <<mainVars, lfolder, lfiles, li, lvideo_data, lmetadata, ltags,
                   dbVars, cacheVars, poolVars, events, uiVars, hist>>

\* ------------------------------------------- thumbnail pool (_thread_pool)
\* A pool that starts a thread for every task.
PoolTake_unbounded ==
    /\ pool_queue # <<>>
    /\ pool_running' = pool_running \cup {Head(pool_queue)}
    /\ pool_queue' = Tail(pool_queue)
    /\ UNCHANGED <<mainVars, loaderVars, dbVars, cacheVars, events, uiVars, hist>>

\* a free worker of the pool takes the oldest queued task
PoolTake ==
    /\ pool_queue # <<>>
    /\ Cardinality(pool_running) < POOL_WORKERS
    /\ pool_running' = pool_running \cup {Head(pool_queue)}
    /\ pool_queue' = Tail(pool_queue)
    /\ UNCHANGED <<mainVars, loaderVars, dbVars, cacheVars, events, uiVars, hist>>

\* A worker that extracts the thumbnail and never calls back.
PoolRun_silent(t) ==
    /\ t \in pool_running
    /\ _thumbnail_cache' = extract_thumbnail(t.path, THUMB_POSITION, THUMB_W, THUMB_H).cache
    /\ pool_running' = pool_running \ {t}
    /\ UNCHANGED <<mainVars, loaderVars, dbVars, lru_cache, _metadata_cache, pool_queue,
                   events, uiVars, hist>>

\* _extract_and_callback, lines 180-185: extract_thumbnail, then the callback
\* of _load_videos_async, which emits thumbnail_loaded_signal
PoolRun(t) ==
    /\ t \in pool_running
    /\ LET r == extract_thumbnail(t.path, THUMB_POSITION, THUMB_W, THUMB_H)
       IN  /\ _thumbnail_cache' = r.cache
           /\ events' = emit(events, ThumbnailEvent(t.req, t.path, r.result))
    /\ pool_running' = pool_running \ {t}
    /\ UNCHANGED <<mainVars, loaderVars, dbVars, lru_cache, _metadata_cache, pool_queue,
                   uiVars, hist>>

\* ------------------------------------------- GUI thread: the three slots
\* VideoItem.__init__: a missing thumbnail becomes a gray 320x180 pixmap
VideoItem(path, name, thumbnail, size, duration, watched, tags, video_data) ==
    [file_path |-> path, file_name |-> name,
     thumbnail |-> IF thumbnail = None THEN Pixmap("gray", 320, 180, None) ELSE thumbnail,
     size |-> size, duration |-> duration, watched |-> watched, tags |-> tags,
     video_data |-> video_data]

\* add_video_to_grid, lines 443-454
add_video_to_grid(e) ==
    Append(grid, VideoItem(e.file_path, e.file_name, e.thumbnail, e.size, e.duration,
                           e.watched, e.tags, get_video_by_path(e.file_path)))

\* A handler that gives the thumbnail to every row.
update_video_thumbnail_all(e) ==
    [i \in 1..Len(grid) |-> [grid[i] EXCEPT !.thumbnail = e.pixmap]]

\* update_video_thumbnail, lines 456-465: the first row with that path
update_video_thumbnail(e) ==
    LET hits == {i \in 1..Len(grid) : grid[i].file_path = e.file_path}
    IN  IF hits = {} THEN grid
        ELSE LET first == CHOOSE i \in hits : \A j \in hits : i <= j
             IN  [grid EXCEPT ![first].thumbnail = e.pixmap]

\* the event loop takes the oldest queued event off the queue
take_event ==
    /\ mpc = "idle"
    /\ events # <<>>
    /\ events' = Tail(events)
    /\ hist' = [hist EXCEPT !.delivered = @ \cup {Head(events)}]

DeliverVideoLoaded ==
    /\ take_event
    /\ Head(events).type = "video_loaded"
    /\ grid' = add_video_to_grid(Head(events))
    /\ UNCHANGED <<mainVars, loaderVars, dbVars, cacheVars, poolVars, progress_bar,
                   status_msg, recent_folders>>

DeliverThumbnail ==
    /\ take_event
    /\ Head(events).type = "thumbnail_loaded"
    /\ grid' = update_video_thumbnail(Head(events))
    /\ UNCHANGED <<mainVars, loaderVars, dbVars, cacheVars, poolVars, progress_bar,
                   status_msg, recent_folders>>

\* update_load_progress, lines 467-484 (the two 2-second timers that later
\* hide the bar and clear the label only repaint and are left out)
DeliverProgress ==
    /\ take_event
    /\ Head(events).type = "load_progress"
    /\ LET e == Head(events)
       IN  IF e.total = 0
           THEN /\ progress_bar' = [progress_bar EXCEPT !.visible = FALSE]
                /\ UNCHANGED status_msg
           ELSE /\ progress_bar' = [progress_bar EXCEPT
                                      !.value = (e.current * 100) \div e.total,
                                      !.label = <<e.current, e.total>>]
                /\ status_msg' = IF e.current >= e.total THEN "Loaded videos"
                                 ELSE status_msg
    /\ UNCHANGED <<mainVars, loaderVars, dbVars, cacheVars, poolVars, grid,
                   recent_folders>>

\* ------------------------------------------------------- specifications
LoaderStep(l) ==
    \/ LoaderBegin(l)
    \/ LoaderCheck(l)
    \/ LoaderLookup(l)
    \/ LoaderProbe(l)
    \/ LoaderAdd(l)
    \/ LoaderEmitNew(l)
    \/ LoaderSubmitNew(l)
    \/ LoaderTags(l)
    \/ LoaderEmitOld(l)
    \/ LoaderSubmitOld(l)
    \/ LoaderProgress(l)
    \/ LoaderFinal(l)
    \/ LoaderFinally(l)

MainStep ==
    \/ MainIsAlive
    \/ MainJoin
    \/ MainJoinExit
    \/ MainJoinTimeout
    \/ MainReset
    \/ MainStart

Deliver ==
    \/ DeliverVideoLoaded
    \/ DeliverThumbnail
    \/ DeliverProgress

Next ==
    /\ \/ \E folder \in Folders : MainLoad(folder)
       \/ MainStep
       \/ \E l \in Loaders : LoaderStep(l)
       \/ PoolTake
       \/ \E t \in pool_running : PoolRun(t)
       \/ Deliver
    /\ UNCHANGED utilVars

\* Load requests on folders A and B, in any order and at any moment
Spec == Init /\ [][Next]_vars

\* One scan of folder C; before it, while it runs or after it, the folder
\* without videos may be opened
NextScan ==
    /\ \/ (\A l \in Loaders : lpc[l] = "none") /\ MainLoad(ScanFolder)
       \/ MainLoad(EmptyFolder)
       \/ MainStep
       \/ \E l \in Loaders : LoaderStep(l)
       \/ PoolTake
       \/ \E t \in pool_running : PoolRun(t)
       \/ Deliver
    /\ UNCHANGED utilVars

SpecScan == Init /\ [][NextScan]_vars

\* A load of folder A, then a load of folder B at any later moment: the
\* loader of A may be anywhere, or gone, when B is asked for.
NextSupersede ==
    /\ \/ nloads = 0 /\ MainLoad("A")
       \/ nloads = 1 /\ MainLoad("B")
       \/ MainStep
       \/ \E l \in Loaders : LoaderStep(l)
       \/ PoolTake
       \/ \E t \in pool_running : PoolRun(t)
       \/ Deliver
    /\ UNCHANGED utilVars

SpecSupersede == Init /\ [][NextSupersede]_vars

\* The GUI thread goes on through load_videos_in_folder (join(1) returns
\* after a second at the latest) and the loader of the second request is
\* scheduled; the loader of the first request may stay inside a probe for
\* ever.
SpecSupersedeFair ==
    /\ SpecSupersede
    /\ WF_vars(MainStep /\ UNCHANGED utilVars)
    /\ WF_vars(LoaderStep(2) /\ UNCHANGED utilVars)

\* One scan of the folder with five new videos: five extractions are
\* scheduled for a pool of four workers. The events stay in the queue of
\* the GUI thread: its handlers touch neither the loader nor the pool.
NextPool ==
    /\ \/ (\A l \in Loaders : lpc[l] = "none") /\ MainLoad(PoolFolder)
       \/ MainStep
       \/ \E l \in Loaders : LoaderStep(l)
       \/ PoolTake
       \/ \E t \in pool_running : PoolRun(t)
    /\ UNCHANGED utilVars

SpecPool == Init /\ [][NextPool]_vars

\* the tasks the scan of PoolFolder can give to the pool
PoolTasks ==
    {[req |-> l, path |-> join(PoolFolder, listdir(PoolFolder)[k])] :
        l \in Loaders, k \in 1..Len(listdir(PoolFolder))}

\* The workers of the pool are scheduled fairly: a free worker takes the
\* oldest queued task, and the workers that have a task go on with it.
SpecPoolFair ==
    /\ SpecPool
    /\ WF_vars(PoolTake /\ UNCHANGED utilVars)
    /\ WF_vars((\E t \in pool_running : PoolRun(t)) /\ UNCHANGED utilVars)

\* The same scan with a catalog store whose calls may fail
NextScanFault ==
    \/ NextScan
    \/ (\E l \in Loaders : LoaderStoreError(l)) /\ UNCHANGED utilVars

SpecScanFault == Init /\ [][NextScanFault]_vars

\* The same scan with folders whose listing may fail
ListErrors == {"PermissionError", "FileNotFoundError"}

NextListFault ==
    \/ NextScan
    \/ (\E exc \in ListErrors : MainListError(exc)) /\ UNCHANGED utilVars

SpecListFault == Init /\ [][NextListFault]_vars

\* The loader threads are scheduled fairly by the operating system
SpecScanFaultFair ==
    SpecScanFault /\ \A l \in Loaders : WF_vars(LoaderStep(l) /\ UNCHANGED utilVars)

\* ------------------------------------------- the extension filter alone
\* names a listing given to the filter may hold
FilterNames ==
    {"a.mp4", "b.txt", "c.mkv", "d.MP4", "e.Mkv", "f.avi", "g.mov", "h.wmv",
     "i.flv", "j.webm", "k.m4v", "l.mpeg", "m.mpg", "n.3gp", "o.3G2", "p.mp3",
     "q.mp4.txt", "mp4", "r.mp", "s.mp44", "t."}

Listings == UNION {[1..n -> FilterNames] : n \in 0..MaxListing}

\* lines 415-427 on one listing: files = os.listdir(...), then the filter
FilterListing(files) ==
    /\ calls = <<>>
    /\ calls' = <<[fn |-> "video_files", files |-> files,
                   result |-> video_files_of(files)]>>
    /\ UNCHANGED <<vars_program, fs, tstate>>

NextFilter == \E files \in Listings : FilterListing(files)

SpecFilter == Init /\ [][NextFilter]_vars

\* ------------------------------------------- get_video_metadata alone
\* One path outside the scanned folders is probed again and again while
\* the file at it is created or rewritten.
ProbePath == join("P", "v.mp4")

AbsentFile == File(FALSE, FALSE, FALSE, FALSE, 0, 0, 0, 0, 0)
HealthyFile == File(TRUE, FALSE, TRUE, TRUE, 640, 360, 25, 50, 2)
RewrittenFile == File(TRUE, FALSE, TRUE, TRUE, 1920, 1080, 25, 100, 5)

\* what may be at the path at the start: nothing, a file cv2 raises on, a
\* file that does not open, or a file that opens and reports anything
ProbeFiles ==
    {AbsentFile}
    \cup {File(TRUE, TRUE, FALSE, FALSE, 0, 0, 0, 0, size) : size \in {0, 2}}
    \cup {File(TRUE, FALSE, FALSE, FALSE, 0, 0, 0, 0, size) : size \in {0, 2}}
    \cup {File(TRUE, FALSE, TRUE, TRUE, x[1], x[2], x[3], x[4], x[5]) :
             x \in {-1, 0, 640} \X {0, 360} \X {0, 25} \X {-25, 0, 50} \X {0, 2}}

InitProbe == InitProgram /\ fs \in [{ProbePath} -> ProbeFiles]

\* a call of get_video_metadata(path) from one thread
Probe(path) ==
    /\ Len(calls) < MaxCalls
    /\ LET r == get_video_metadata(path)
       IN  /\ lru_cache' = r.lru
           /\ _metadata_cache' = r.cache
           /\ calls' = Append(calls, [fn |-> "get_video_metadata", path |-> path,
                                      file |-> VideoCapture(path),
                                      result |-> r.result, touched |-> r.touched,
                                      opened |-> r.opened])
    /\ UNCHANGED <<mainVars, loaderVars, dbVars, _thumbnail_cache, poolVars, events,
                   uiVars, hist, fs, tstate>>

\* another program writes a video file at a path where there was none
CreateFile(path) ==
    /\ Len(calls) < MaxCalls
    /\ ~fs[path].present
    /\ fs' = [fs EXCEPT ![path] = HealthyFile]
    /\ calls' = Append(calls, [fn |-> "create", path |-> path])
    /\ UNCHANGED <<vars_program, tstate>>

\* another program replaces the file at a path
RewriteFile(path) ==
    /\ Len(calls) < MaxCalls
    /\ fs[path].present
    /\ fs' = [fs EXCEPT ![path] = RewrittenFile]
    /\ calls' = Append(calls, [fn |-> "rewrite", path |-> path])
    /\ UNCHANGED <<vars_program, tstate>>

NextProbe ==
    \/ Probe(ProbePath)
    \/ CreateFile(ProbePath)
    \/ RewriteFile(ProbePath)

SpecProbe == InitProbe /\ [][NextProbe]_vars

\* --------------------------------------------- extract_thumbnail alone
\* One path outside the scanned folders, with any kind of file at it, is
\* given to extract_thumbnail at several positions and sizes.
ThumbPath == join("T", "v.mp4")

\* positions in tenths: below 0, the ends, the callers' 0.1, 0.5, 0.9, and
\* above 1
Positions == {-5, 0, 1, 5, 9, 10, 15}

\* QSize(320, 180) of the dialogs and the loader, QSize(160, 90) of the
\* preview strip
Sizes == {<<THUMB_W, THUMB_H>>, <<PREVIEW_W, PREVIEW_H>>}

\* frames: 16:9, portrait, 4:3, square, a one-pixel-high strip, and a
\* frame with no pixels
FrameSizes == {<<640, 360>>, <<360, 640>>, <<640, 480>>, <<480, 480>>, <<1000, 1>>, <<0, 0>>}

ThumbFiles ==
    {AbsentFile}
    \cup {File(TRUE, TRUE, FALSE, FALSE, 0, 0, 0, 0, 2)}
    \cup {File(TRUE, FALSE, FALSE, FALSE, 0, 0, 0, 0, 2)}
    \cup {File(TRUE, FALSE, TRUE, x[1], x[2][1], x[2][2], 25, x[3], x[4]) :
             x \in BOOLEAN \X FrameSizes
                   \X {-1, 0, 1, 50} \X {2, 2 * SEEK_SIZE_LIMIT}}

InitThumb == InitProgram /\ fs \in [{ThumbPath} -> ThumbFiles]

\* a call of extract_thumbnail(path, position, size) from one thread
Extract(path, position, size) ==
    /\ Len(calls) < MaxCalls
    /\ Cardinality({k \in 1..Len(calls) : calls[k].fn = "extract_thumbnail"}) < MaxExtracts
    /\ LET r == extract_thumbnail(path, position, size[1], size[2])
       IN  /\ _thumbnail_cache' = r.cache
           /\ calls' = Append(calls, [fn |-> "extract_thumbnail", path |-> path,
                                      position |-> position, size |-> size,
                                      file |-> VideoCapture(path),
                                      result |-> r.result, seek |-> r.seek,
                                      stored |-> r.stored])
    /\ UNCHANGED <<mainVars, loaderVars, dbVars, lru_cache, _metadata_cache, poolVars,
                   events, uiVars, hist, fs, tstate>>

NextThumb == \E position \in Positions, size \in Sizes : Extract(ThumbPath, position, size)

SpecThumb == InitThumb /\ [][NextThumb]_vars

\* The same calls on a file that another program may replace by a good
\* one between them
NextRetry ==
    \/ \E position \in Positions, size \in Sizes : Extract(ThumbPath, position, size)
    \/ RewriteFile(ThumbPath)

SpecRetry == InitThumb /\ [][NextRetry]_vars

\* ------------------------------------------ delete_files, move_files
\* Folder B is loaded; the user then selects a video of the grid and
\* deletes it or moves it to another folder.
SelectedPaths == {grid[i].file_path : i \in 1..Len(grid)}

\* the disk with the file at path replaced by file
write_file(disk, path, file) ==
    [q \in DOMAIN disk \cup {path} |-> IF q = path THEN file ELSE disk[q]]

\* delete_files([path]), lines 777-815: the confirmation box; os.remove
\* (which raises when the file is gone: a warning box); a lookup of the
\* catalog whose result is not used; refresh_current_folder, that is the
\* start of load_videos_in_folder on the current folder
DeleteFiles(path, reply) ==
    /\ mpc = "idle"
    /\ Len(calls) < MaxCalls
    /\ path \in SelectedPaths
    /\ calls' = Append(calls, [fn |-> "delete_files", path |-> path,
                               removed |-> reply = "Yes" /\ exists(path),
                               entry |-> get_video_by_path(path)])
    /\ IF reply = "Yes"
       THEN /\ fs' = IF exists(path) THEN write_file(fs, path, AbsentFile) ELSE fs
            /\ MainLoad(marg)
       ELSE UNCHANGED <<vars_program, fs>>
    /\ UNCHANGED tstate

\* the folders the user may pick in the dialog of move_files; no folder
\* when the dialog is cancelled
Destinations == {"", "A", "B"}

\* move_files([path]), lines 1101-1217, with dest the folder picked in the
\* dialog and reply the answer to 'File Exists'. Database has no method
\* update_video_path: for a file with a catalog entry line 1189 raises
\* AttributeError, the except clause counts the file as an error, and the
\* catalog is left as it was. refresh_current_folder ends the method.
MoveFiles(path, dest, reply) ==
    /\ mpc = "idle"
    /\ Len(calls) < MaxCalls
    /\ path \in SelectedPaths
    /\ LET dest_path == join(dest, path.name)
           entry == get_video_by_path(path)
           returns_early == dest = "" \/ dest = path.folder
           skipped == exists(dest_path) /\ reply # "Yes"
           moved == ~returns_early /\ ~skipped /\ exists(path)
           failed == ~returns_early /\ ~skipped /\ (~exists(path) \/ entry # None)
       IN  /\ calls' = Append(calls, [fn |-> "move_files", path |-> path,
                                      dest |-> dest, dest_path |-> dest_path,
                                      moved |-> moved, entry |-> entry,
                                      success_count |-> IF moved /\ ~failed THEN 1 ELSE 0,
                                      error_count |-> IF failed THEN 1 ELSE 0])
           /\ fs' = IF moved
                    THEN write_file(write_file(fs, dest_path, VideoCapture(path)),
                                    path, AbsentFile)
                    ELSE fs
           /\ IF returns_early THEN UNCHANGED vars_program ELSE MainLoad(marg)
    /\ UNCHANGED tstate

NextFiles ==
    \/ /\ \/ nloads = 0 /\ MainLoad("B")
          \/ MainStep
          \/ \E l \in Loaders : LoaderStep(l)
          \/ PoolTake
          \/ \E t \in pool_running : PoolRun(t)
          \/ Deliver
       /\ UNCHANGED utilVars
    \/ \E path \in SelectedPaths, reply \in {"Yes", "No"} : DeleteFiles(path, reply)
    \/ \E path \in SelectedPaths, dest \in Destinations, reply \in {"Yes", "No", "Cancel"} :
          MoveFiles(path, dest, reply)

SpecFiles == Init /\ [][NextFiles]_vars

\* ------------------------- load_videos_in_folder on a non-directory
\* the directories on disk
Directories == Folders \cup {ScanFolder, EmptyFolder, PoolFolder}

\* os.path.isdir
isdir(path) == path \in Directories

\* what load_videos_in_folder can be handed that is no directory: the
\* empty path of a folder browser with no folder chosen
\* (refresh_current_folder), and a folder that has been removed
NotDirectories == {"", "Z"}

\* A load_videos_in_folder without the check of line 389.
MainLoadNotDir_unchecked(folder) ==
    /\ mpc = "idle"
    /\ Len(calls) < MaxCalls
    /\ calls' = Append(calls, [fn |-> "load_videos_in_folder", path |-> folder,
                               thread |-> _loading_thread, rows |-> Len(grid)])
    /\ marg' = folder
    /\ mpc' = IF _loading_thread # 0 THEN "is_alive" ELSE "reset"
    /\ UNCHANGED <<_loading_thread, _loading_canceled, mjoin, nloads, uncaught,
                   loaderVars, dbVars, cacheVars, poolVars, events, uiVars, hist,
                   fs, tstate>>

\* load_videos_in_folder, lines 387-390, with a path that is no
\* directory: return. The call is logged with the loader reference and
\* the number of rows it found.
MainLoadNotDir(folder) ==
    /\ mpc = "idle"
    /\ ~isdir(folder)
    /\ Len(calls) < MaxCalls
    /\ calls' = Append(calls, [fn |-> "load_videos_in_folder", path |-> folder,
                               thread |-> _loading_thread, rows |-> Len(grid)])
    /\ UNCHANGED <<vars_program, fs, tstate>>

\* One load of folder B, and calls with a path that is no directory
\* before it, while it runs and after it
NextNotDir ==
    \/ /\ \/ nloads = 0 /\ MainLoad("B")
          \/ MainStep
          \/ \E l \in Loaders : LoaderStep(l)
          \/ PoolTake
          \/ \E t \in pool_running : PoolRun(t)
          \/ Deliver
       /\ UNCHANGED utilVars
    \/ \E folder \in NotDirectories : MainLoadNotDir(folder)

SpecNotDir == Init /\ [][NextNotDir]_vars

\* -------------------------------------------------- apply_search_filter
\* Folder C is loaded; when the scan has ended and its events are handled,
\* the user presses Search, at most MaxFilters times.
MaxFilters == 2

\* the characters of the names in code point order, as far as they occur
\* after str.lower
Alphabet ==
    <<".", "0", "1", "2", "3", "4", "5", "6", "7", "8", "9",
      "a", "b", "c", "d", "e", "f", "g", "h", "i", "j", "k", "l", "m",
      "n", "o", "p", "q", "r", "s", "t", "u", "v", "w", "x", "y", "z">>

ord(c) == CHOOSE k \in 1..Len(Alphabet) : Alphabet[k] = c

\* str < str: the first differing character decides, else the length
str_less(a, b) ==
    LET n == IF Len(a) < Len(b) THEN Len(a) ELSE Len(b)
        diff == {k \in 1..n : a[k] # b[k]}
    IN  IF diff = {} THEN Len(a) < Len(b)
        ELSE LET k == CHOOSE i \in diff : \A j \in diff : i <= j
             IN  ord(a[k]) < ord(b[k])

\* text in name (substring)
str_in(text, name) ==
    \E k \in 0..(Len(name) - Len(text)) : SubSeq(name, k + 1, k + Len(text)) = text

\* os.path.getmtime: the files of a folder were written one after the
\* other, in listing order
getmtime(path) ==
    CHOOSE k \in 1..Len(listdir(path.folder)) : listdir(path.folder)[k] = path.name

\* the key= functions of lines 893-904; no sort for another sort_by
sort_less(sort_by, x, y) ==
    CASE sort_by = "name" -> str_less(lower(Chars[x.file_name]), lower(Chars[y.file_name]))
      [] sort_by = "size" -> x.size < y.size
      [] sort_by = "duration" -> x.duration < y.duration
      [] sort_by = "date_modified" ->
             (IF exists(x.file_path) THEN getmtime(x.file_path) ELSE 0)
                 < (IF exists(y.file_path) THEN getmtime(y.file_path) ELSE 0)
      [] OTHER -> FALSE

\* list.sort(key=..., reverse=...): stable in both directions
RECURSIVE list_sort(_, _, _)
list_sort(items, sort_by, reverse) ==
    IF items = <<>> THEN <<>>
    ELSE LET x == items[Len(items)]
             rest == list_sort(SubSeq(items, 1, Len(items) - 1), sort_by, reverse)
             before(y) == IF reverse THEN sort_less(sort_by, y, x)
                          ELSE sort_less(sort_by, x, y)
             later == {k \in 1..Len(rest) : before(rest[k])}
             at == IF later = {} THEN Len(rest) + 1
                   ELSE CHOOSE k \in later : \A j \in later : k <= j
         IN  SubSeq(rest, 1, at - 1) \o <<x>> \o SubSeq(rest, at, Len(rest))

\* VideoItem.clone, video_grid.py lines 43-52: video_data is not copied
clone(item) ==
    VideoItem(item.file_path, item.file_name, item.thumbnail, item.size,
              item.duration, item.watched, item.tags, None)

\* lines 869-890: the rows that pass the filters
passes(item, params) ==
    /\ exists(item.file_path)
    /\ params.search_text = <<>>
           \/ str_in(lower(params.search_text), lower(Chars[item.file_name]))
    /\ params.watched_filter = "Watched Only" => item.watched
    /\ params.watched_filter = "Unwatched Only" => ~item.watched
    /\ params.tag # "All Tags" => params.tag \in item.tags

\* lines 856-913: the rows of the grid that pass, sorted, cloned into the
\* cleared model
filtered_grid(rows, params) ==
    LET filtered_videos == SelectSeq(rows, LAMBDA item : passes(item, params))
        sorted == list_sort(filtered_videos, params.sort_by,
                            params.sort_order = "descending")
    IN  [k \in 1..Len(sorted) |-> clone(sorted[k])]

\* what perform_search sends (search_filter.py lines 75-89); a tag of
\* "All Tags" stands for the key left out
SearchParams ==
    [search_text : {<<>>, <<"C", "3">>},
     watched_filter : {"All Videos", "Watched Only", "Unwatched Only"},
     tag : {"All Tags", "fav"},
     sort_by : {"name", "date_modified", "size", "duration"},
     sort_order : {"ascending", "descending"}]

\* apply_search_filter, lines 846-919
ApplySearchFilter(params) ==
    /\ mpc = "idle"
    /\ events = <<>>
    /\ \A l \in Loaders : lpc[l] \in {"none", "dead"}
    /\ pool_queue = <<>> /\ pool_running = {}
    /\ nloads >= 1
    /\ Len(calls) < MaxFilters
    /\ calls' = Append(calls, [fn |-> "apply_search_filter", params |-> params])
    /\ IF grid = <<>>
       THEN /\ status_msg' = "Filtering videos..."
            /\ UNCHANGED grid
       ELSE /\ grid' = filtered_grid(grid, params)
            /\ status_msg' = "Found " \o ToString(Len(grid'))
                                 \o " videos matching your filters"
    /\ UNCHANGED <<mainVars, loaderVars, dbVars, cacheVars, poolVars, events,
                   progress_bar, recent_folders, hist, fs, tstate>>

NextSearch ==
    \/ /\ \/ nloads = 0 /\ MainLoad(ScanFolder)
          \/ MainStep
          \/ \E l \in Loaders : LoaderStep(l)
          \/ PoolTake
          \/ \E t \in pool_running : PoolRun(t)
          \/ Deliver
       /\ UNCHANGED utilVars
    \/ \E params \in SearchParams : ApplySearchFilter(params)

SpecSearch == Init /\ [][NextSearch]_vars

\* ------------------------------------------------------ clear_caches
\* Calls of the two functions on a good file, with clear_caches between
\* them.
InitClear ==
    InitProgram /\ fs = [p \in {ProbePath, ThumbPath} |-> HealthyFile]

\* clear_caches(), lines 221-223
ClearCaches ==
    /\ Len(calls) < MaxCalls
    /\ _metadata_cache' = [p \in {} |-> None]
    /\ _thumbnail_cache' = [k \in {} |-> None]
    /\ calls' = Append(calls, [fn |-> "clear_caches"])
    /\ UNCHANGED <<mainVars, loaderVars, dbVars, lru_cache, poolVars, events, uiVars,
                   hist, fs, tstate>>

NextClear ==
    \/ Probe(ProbePath)
    \/ \E position \in Positions, size \in Sizes : Extract(ThumbPath, position, size)
    \/ ClearCaches

SpecClear == InitClear /\ [][NextClear]_vars

\* ------------------------------------- the cache inserts, step by step
\* The pool workers and the loader threads each make one call for a file
\* of their own, and the statements of the insert (the test of the size,
\* the clear, the store) are taken one at a time, so that the threads
\* interleave between them. The caches start with what earlier calls for
\* other files have left in them.
CacheFills == {0, _CACHE_SIZE_LIMIT - 2, _CACHE_SIZE_LIMIT - 1}

WarmPath(n) == join("W", ToString(n))

\* what extract_thumbnail and get_video_metadata store for a HealthyFile
WarmPixmap(path) ==
    Pixmap("frame", THUMB_W, THUMB_H,
           [path |-> path, seek |-> seek_of(HealthyFile, THUMB_POSITION)])

WarmMeta ==
    Meta(HealthyFile.width, HealthyFile.height, HealthyFile.fps,
         duration_of(HealthyFile), HealthyFile.size)

WarmKeys(k) ==
    {thumbnail_key(WarmPath(n), THUMB_POSITION, THUMB_W, THUMB_H) : n \in 1..k}

\* the file a thread works on
CachePath(t) == join(t[1], ToString(t[2]))

CachePaths == {CachePath(t) : t \in CacheThreads}

InitCache ==
    /\ InitNoCaches
    /\ fs = [p \in CachePaths |-> HealthyFile]
    /\ \E k \in CacheFills :
          /\ lru_cache = [n \in 1..k |-> [key |-> WarmPath(n), value |-> WarmMeta]]
          /\ _metadata_cache = [p \in {WarmPath(n) : n \in 1..k} |-> WarmMeta]
          /\ _thumbnail_cache = [key \in WarmKeys(k) |-> WarmPixmap(key.path)]

\* extract_thumbnail up to line 164, in a pool worker
ThumbBegin(t) ==
    /\ tstate[t].pc = "idle"
    /\ LET r == extract_thumbnail(CachePath(t), THUMB_POSITION, THUMB_W, THUMB_H)
           key == thumbnail_key(CachePath(t), THUMB_POSITION, THUMB_W, THUMB_H)
       IN  tstate' = [tstate EXCEPT ![t] =
                         [pc |-> IF r.stored THEN "check" ELSE "done",
                          key |-> key, value |-> r.result]]
    /\ UNCHANGED <<vars_program, fs, calls>>

\* line 166: if len(_thumbnail_cache) >= _CACHE_SIZE_LIMIT
ThumbCheck(t) ==
    /\ tstate[t].pc = "check"
    /\ tstate' = [tstate EXCEPT ![t].pc =
                      IF Cardinality(DOMAIN _thumbnail_cache) >= _CACHE_SIZE_LIMIT
                      THEN "clear" ELSE "store"]
    /\ UNCHANGED <<vars_program, fs, calls>>

\* line 167: _thumbnail_cache.clear()
ThumbClear(t) ==
    /\ tstate[t].pc = "clear"
    /\ _thumbnail_cache' = [k \in {} |-> None]
    /\ tstate' = [tstate EXCEPT ![t].pc = "store"]
    /\ UNCHANGED <<mainVars, loaderVars, dbVars, lru_cache, _metadata_cache, poolVars,
                   events, uiVars, hist, fs, calls>>

\* line 169: _thumbnail_cache[cache_key] = pixmap
ThumbStore(t) ==
    /\ tstate[t].pc = "store"
    /\ _thumbnail_cache' = dict_set(_thumbnail_cache, tstate[t].key, tstate[t].value)
    /\ tstate' = [tstate EXCEPT ![t].pc = "done"]
    /\ UNCHANGED <<mainVars, loaderVars, dbVars, lru_cache, _metadata_cache, poolVars,
                   events, uiVars, hist, fs, calls>>

\* get_video_metadata up to line 73, in a loader thread
MetaBegin(t) ==
    /\ tstate[t].pc = "idle"
    /\ LET r == get_video_metadata(CachePath(t))
       IN  /\ tstate' = [tstate EXCEPT ![t] =
                             [pc |-> IF r.opened THEN "check" ELSE "done",
                              key |-> CachePath(t), value |-> r.result]]
           /\ lru_cache' = IF r.opened THEN lru_cache ELSE r.lru
    /\ UNCHANGED <<mainVars, loaderVars, dbVars, _metadata_cache, _thumbnail_cache,
                   poolVars, events, uiVars, hist, fs, calls>>

\* line 75: if len(_metadata_cache) >= _CACHE_SIZE_LIMIT
MetaCheck(t) ==
    /\ tstate[t].pc = "check"
    /\ tstate' = [tstate EXCEPT ![t].pc =
                      IF Cardinality(DOMAIN _metadata_cache) >= _CACHE_SIZE_LIMIT
                      THEN "clear" ELSE "store"]
    /\ UNCHANGED <<vars_program, fs, calls>>

\* line 76: _metadata_cache.clear()
MetaClear(t) ==
    /\ tstate[t].pc = "clear"
    /\ _metadata_cache' = [k \in {} |-> None]
    /\ tstate' = [tstate EXCEPT ![t].pc = "store"]
    /\ UNCHANGED <<mainVars, loaderVars, dbVars, lru_cache, _thumbnail_cache, poolVars,
                   events, uiVars, hist, fs, calls>>

\* lines 78-80: _metadata_cache[file_path] = result, and the return through
\* the lru_cache wrapper
MetaStore(t) ==
    /\ tstate[t].pc = "store"
    /\ _metadata_cache' = dict_set(_metadata_cache, tstate[t].key, tstate[t].value)
    /\ lru_cache' = lru_store(tstate[t].key, tstate[t].value)
    /\ tstate' = [tstate EXCEPT ![t].pc = "done"]
    /\ UNCHANGED <<mainVars, loaderVars, dbVars, _thumbnail_cache, poolVars,
                   events, uiVars, hist, fs, calls>>

NextCache ==
    \/ \E t \in PoolThreads : ThumbBegin(t)
    \/ \E t \in PoolThreads : ThumbCheck(t)
    \/ \E t \in PoolThreads : ThumbClear(t)
    \/ \E t \in PoolThreads : ThumbStore(t)
    \/ \E t \in LoaderThreads : MetaBegin(t)
    \/ \E t \in LoaderThreads : MetaCheck(t)
    \/ \E t \in LoaderThreads : MetaClear(t)
    \/ \E t \in LoaderThreads : MetaStore(t)

SpecCache == InitCache /\ [][NextCache]_vars

\* ------------------------------------- the cache inserts, one thread
\* Calls of the two functions from one thread, on caches that hold one
\* entry less than the limit, or the limit.
EvictFills == {_CACHE_SIZE_LIMIT - 1, _CACHE_SIZE_LIMIT}

InitEvict ==
    /\ InitNoCaches
    /\ fs = [p \in {ProbePath, ThumbPath} |-> HealthyFile]
    /\ \E k \in EvictFills :
          /\ lru_cache = [n \in 1..k |-> [key |-> WarmPath(n), value |-> WarmMeta]]
          /\ _metadata_cache = [p \in {WarmPath(n) : n \in 1..k} |-> WarmMeta]
          /\ _thumbnail_cache = [key \in WarmKeys(k) |-> WarmPixmap(key.path)]

NextEvict ==
    \/ \E path \in {ProbePath, ThumbPath} : Probe(path)
    \/ \E position \in Positions, size \in Sizes : Extract(ThumbPath, position, size)

SpecEvict == InitEvict /\ [][NextEvict]_vars


\* ------------------------------------------------ what the history shows
\* the events loader l has emitted, by kind
ItemEvents(l) == SelectSeq(hist.emitted[l], LAMBDA e : e.type = "video_loaded")
ProgressOf(l) == SelectSeq(hist.emitted[l], LAMBDA e : e.type = "load_progress")
FileProgress(l) == SelectSeq(ProgressOf(l), LAMBDA e : e.phase = "file")
FinalEmitted(l) == \E k \in 1..Len(ProgressOf(l)) : ProgressOf(l)[k].phase = "final"

\* loader l was alive when a later request set the cancellation flag
Superseded(l) == \E pr \in hist.superseded : pr[1] = l

\* loader l is inside its per-file loop and has a file left to handle
InLoop(l) ==
    /\ lpc[l] \in {"check", "lookup", "probe", "add", "emit_new", "submit_new",
                   "tags", "emit_old", "submit_old", "progress"}
    /\ li[l] <= total_files(l)

IsPrefix(s, t) == Len(s) <= Len(t) /\ SubSeq(t, 1, Len(s)) = s

Count(s, x) == Cardinality({k \in 1..Len(s) : s[k] = x})

\* --------------------------------------------------------------- claims

\* C1: when request B supersedes request A, no item-ready event of A's
\* request is emitted after B's loader has emitted its final progress
\* event, whatever the interleaving and even when the join timed out.
C1_NoItemOfSupersededAfterFinal ==
    [][\A pr \in hist.superseded :
          FinalEmitted(pr[2]) => Len(ItemEvents(pr[1]))' = Len(ItemEvents(pr[1]))]_vars

\* C2: at most one loader is active: there are never two loaders inside
\* their per-file loops that can both go on to emit item-ready events.
C2_AtMostOneActive ==
    \A a \in Loaders : \A b \in Loaders :
        (a # b /\ InLoop(a) /\ InLoop(b)) => _loading_canceled

\* C3: the item-ready event of a file is received before its
\* thumbnail-ready event, for every interleaving of the loader and the
\* pool workers.
C3_ItemBeforeThumbnail ==
    \A e \in hist.delivered :
        e.type = "thumbnail_loaded" =>
            \E f \in hist.delivered :
                /\ f.type = "video_loaded"
                /\ f.req = e.req
                /\ f.file_path = e.file_path

\* the thumbnail of the later file c3 was received while that of the
\* earlier file c2 is still to come
C3_Witness ==
    /\ \E e \in hist.delivered :
           e.type = "thumbnail_loaded" /\ e.file_path = join("C", "c3.avi")
    /\ \E f \in hist.delivered :
           f.type = "video_loaded" /\ f.file_path = join("C", "c2.mp4")
    /\ ~\E e \in hist.delivered :
           e.type = "thumbnail_loaded" /\ e.file_path = join("C", "c2.mp4")

\* C4: once a loader has read the cancellation flag as set at a file
\* boundary it emits no further item-ready event, adds no catalog entry,
\* probes no file and schedules no thumbnail; the catalog entries and the
\* events it produced before stay as they are.
C4_StopsAtBoundary ==
    [][\A l \in Loaders :
          lexit[l] = "break" =>
              /\ ItemEvents(l)' = ItemEvents(l)
              /\ hist'.added[l] = hist.added[l]
              /\ hist'.probed[l] = hist.probed[l]
              /\ hist'.submitted[l] = hist.submitted[l]
              /\ IsPrefix(hist.emitted[l], hist'.emitted[l])
              /\ \A k \in 1..Len(hist.added[l]) :
                     rows_with(videos', hist.added[l][k].path) =
                         rows_with(videos, hist.added[l][k].path)
              /\ lpc'[l] # lpc[l] => videos' = videos /\ IsPrefix(events, events')]_vars

\* a loader that stopped at the boundary after two files, with the third
\* file left unhandled and the entry of the second file in the catalog
C4_Witness ==
    \E l \in Loaders :
        /\ lexit[l] = "break"
        /\ lpc[l] = "dead"
        /\ li[l] = 3
        /\ total_files(l) = 3
        /\ Len(hist.added[l]) = 1
        /\ Len(ItemEvents(l)) = 1
        /\ get_video_by_path(join("C", "c2.mp4")) # None

\* C5: a loader that has observed the cancellation flag never emits the
\* final progress event.
C5_NoFinalAfterBreak ==
    \A l \in Loaders : lexit[l] = "break" => ~FinalEmitted(l)

\* the files loader l has handled to the end of their loop body
HandledPaths(l) == {join(lfolder[l], lfiles[l][k]) : k \in 1..(li[l] - 1)}

ItemsFor(l, path) ==
    Cardinality({k \in 1..Len(ItemEvents(l)) : ItemEvents(l)[k].file_path = path})

AddedPaths(l) == {hist.added[l][k].path : k \in 1..Len(hist.added[l])}
ProbedPaths(l) == {hist.probed[l][k] : k \in 1..Len(hist.probed[l])}
FoundPaths(l) == {hist.found[l][k].path : k \in 1..Len(hist.found[l])}

\* C6: the progress counter of a request never decreases, and the loader
\* emits exactly one progress event per file, in iteration order: the k-th
\* of them carries k and the total.
C6_ProgressMonotone ==
    \A l \in Loaders :
        /\ \A i \in 1..Len(ProgressOf(l)) : \A j \in i..Len(ProgressOf(l)) :
               ProgressOf(l)[i].current <= ProgressOf(l)[j].current
        /\ Len(FileProgress(l)) = Cardinality(HandledPaths(l))
        /\ \A k \in 1..Len(FileProgress(l)) :
               /\ FileProgress(l)[k].current = k
               /\ FileProgress(l)[k].total = total_files(l)

\* the scan of the three files of C has ended with all its progress events
C6_Witness ==
    \E l \in Loaders :
        /\ lpc[l] = "dead"
        /\ Len(FileProgress(l)) = 3
        /\ Len(ProgressOf(l)) = 5
        /\ FinalEmitted(l)

\* C7: a request that is never cancelled terminates, having emitted a
\* progress event for every file (new, catalogued, or new with a probe
\* that returned None), and its last event is the final progress event
\* with processed = total.
C7_UncancelledCompletes ==
    /\ \A l \in Loaders : (lpc[l] = "begin") ~> (lpc[l] = "dead" \/ Superseded(l))
    /\ [](\A l \in Loaders :
             (lpc[l] = "dead" /\ ~Superseded(l)) =>
                 /\ Len(FileProgress(l)) = total_files(l)
                 /\ HandledPaths(l) = {join(lfolder[l], lfiles[l][k]) :
                                          k \in 1..total_files(l)}
                 /\ LET last == hist.emitted[l][Len(hist.emitted[l])]
                    IN  /\ last.type = "load_progress"
                        /\ last.phase = "final"
                        /\ last.current = total_files(l)
                        /\ last.total = total_files(l))

\* C8: a catalog call that fails for one file does not stop the request:
\* the later files are handled and the final progress event is emitted.
C8_StoreFailureIsolated ==
    \A l \in Loaders :
        (lexit[l] = "exception" /\ lpc[l] = "dead" /\ ~Superseded(l)) =>
            /\ Len(FileProgress(l)) >= total_files(l) - 1
            /\ FinalEmitted(l)

C11_OneEntryPerPath ==
    \A r \in videos : \A q \in videos : r.file_path = q.file_path => r = q

\* add_video ran twice for a1.mp4, once from each of two loaders, and the
\* table holds the row of the later call
C11_Witness ==
    /\ join("A", "a1.mp4") \in AddedPaths(1)
    /\ join("A", "a1.mp4") \in AddedPaths(2)
    /\ Cardinality(rows_with(videos, join("A", "a1.mp4"))) = 1
    /\ get_video_by_path(join("A", "a1.mp4")).id = next_id - 1

\* the terminal statuses load request r has shown
StatusOf(r) == SelectSeq(hist.status, LAMBDA x : x[1] = r)

\* C12: a load request on a folder without a supported media file, once
\* load_videos_in_folder has returned, has shown exactly one "no video
\* files" status, has started no loader thread and has emitted no
\* item-ready and no progress event.
C12_NoMediaStatus ==
    (/\ mpc = "idle"
     /\ nloads >= 1
     /\ video_files_of(listdir(marg)) = <<>>) =>
        /\ StatusOf(nloads) = <<<<nloads, "No video files found in this folder.">>>>
        /\ lpc[nloads] = "none"
        /\ hist.emitted[nloads] = <<>>

\* C13: a request whose folder listing failed starts no loader thread and
\* emits no event, shows the error, and raises nothing out of
\* load_videos_in_folder.
C13_ListingFailureAborts ==
    \A x \in hist.listfail :
        /\ lpc[x[1]] = "none"
        /\ hist.emitted[x[1]] = <<>>
        /\ StatusOf(x[1]) = <<<<x[1], "Error accessing folder">>>>
        /\ \A y \in hist.raised : y[1] # x[1]

\* the names of FilterNames whose extension is a supported one in some
\* letter case
SupportedNames ==
    {"a.mp4", "c.mkv", "d.MP4", "e.Mkv", "f.avi", "g.mov", "h.wmv", "i.flv",
     "j.webm", "k.m4v", "l.mpeg", "m.mpg", "n.3gp", "o.3G2"}

\* C14: the candidate list is the sub-sequence, in listing order, of the
\* listed names whose extension is one of the 12 supported ones in any
\* letter case; is_video_file is true for exactly those names.
C14_CandidatesAreVideos ==
    /\ \A k \in 1..Len(calls) :
           calls[k].fn = "video_files" =>
               calls[k].result =
                   SelectSeq(calls[k].files, LAMBDA n : n \in SupportedNames)
    /\ \A n \in FilterNames : is_video_file(n) <=> n \in SupportedNames
    /\ Cardinality(SUPPORTED_VIDEO_EXTENSIONS) = 12

\* the listing [a.mp4, b.txt, c.mkv] was filtered to [a.mp4, c.mkv]
C14_Witness ==
    \E k \in 1..Len(calls) :
        /\ calls[k].fn = "video_files"
        /\ calls[k].files = <<"a.mp4", "b.txt", "c.mkv">>
        /\ calls[k].result = <<"a.mp4", "c.mkv">>

IsProbe(c) == c.fn = "get_video_metadata"

\* C15: get_video_metadata returns None for a path where there is no
\* file, and keeps nothing for it: once the file has been created, a probe
\* of the path returns the metadata of the file.
C15_MissingPathNotCached ==
    \A k \in 1..Len(calls) :
        IsProbe(calls[k]) =>
            /\ ~calls[k].file.present => calls[k].result = None
            /\ (/\ calls[k].file = HealthyFile
                /\ \E j \in 1..(k - 1) : IsProbe(calls[j]) /\ ~calls[j].file.present) =>
                   /\ calls[k].result # None
                   /\ calls[k].result.size = HealthyFile.size

\* C16: a probe of a path whose file exists but cannot be opened returns
\* the fallback record (1280x720, 30 fps, 60 s, the size of the file).
C16_UnopenableGivesFallback ==
    \A k \in 1..Len(calls) :
        (/\ IsProbe(calls[k])
         /\ calls[k].touched
         /\ calls[k].file.present
         /\ ~calls[k].file.opened) =>
            calls[k].result = Meta(DEFAULT_WIDTH, DEFAULT_HEIGHT, FALLBACK_FPS,
                                   DEFAULT_DURATION, calls[k].file.size)

\* C17: of two probes of one path with no change of the file between
\* them, the first having returned a record, the second returns the same
\* record and does not look at the file system or the container.
C17_ProbeIdempotent ==
    \A k \in 1..(Len(calls) - 1) :
        (/\ IsProbe(calls[k])
         /\ IsProbe(calls[k + 1])
         /\ calls[k].path = calls[k + 1].path
         /\ calls[k].result # None) =>
            /\ calls[k + 1].result = calls[k].result
            /\ ~calls[k + 1].touched
            /\ ~calls[k + 1].opened

\* a file that opened was probed twice in a row
C17_Witness ==
    \E k \in 1..(Len(calls) - 1) :
        /\ IsProbe(calls[k])
        /\ IsProbe(calls[k + 1])
        /\ calls[k].opened
        /\ calls[k].result # None
        /\ calls[k + 1].result = calls[k].result

\* C18: when the probe opened the container and the file is not empty,
\* the record has width, height and duration above zero: a value reported
\* as zero or less is replaced by its default (1280, 720, 60), a value
\* above zero is kept.
C18_DefaultsPerValue ==
    \A k \in 1..Len(calls) :
        (IsProbe(calls[k]) /\ calls[k].opened /\ calls[k].file.size > 0) =>
            LET f == calls[k].file
                r == calls[k].result
            IN  /\ r.width > 0 /\ r.height > 0 /\ r.duration > 0
                /\ r.width = IF f.width > 0 THEN f.width ELSE 1280
                /\ r.height = IF f.height > 0 THEN f.height ELSE 720
                /\ r.duration = IF f.fps > 0 /\ f.frame_count \div f.fps > 0
                                THEN f.frame_count \div f.fps ELSE 60

\* a file that reported no width but a height and a duration: only the
\* width is replaced
C18_Witness ==
    \E k \in 1..Len(calls) :
        /\ IsProbe(calls[k])
        /\ calls[k].opened
        /\ calls[k].file.width = 0
        /\ calls[k].file.height = 360
        /\ calls[k].result.width = 1280
        /\ calls[k].result.height = 360
        /\ calls[k].result.duration = 2

IsExtract(c) == c.fn = "extract_thumbnail"

\* the position held into [0, 1], in tenths
clamp(position) == IF position < 0 THEN 0 ELSE IF position > 10 THEN 10 ELSE position

\* C19: extract_thumbnail holds the position p into [0, 1]; when the frame
\* count is known and above zero, the frame it seeks to is
\* max(1, floor(totalFrames * p)) for that p: never 0 and never above
\* totalFrames.
C19_FrameIndexInRange ==
    \A k \in 1..Len(calls) :
        (/\ IsExtract(calls[k])
         /\ calls[k].seek # None
         /\ calls[k].file.frame_count > 0) =>
            /\ calls[k].seek.kind = "frame"
            /\ calls[k].seek.at >= 1
            /\ calls[k].seek.at <= calls[k].file.frame_count
            /\ LET t == (calls[k].file.frame_count * clamp(calls[k].position)) \div 10
               IN  calls[k].seek.at = IF t >= 1 THEN t ELSE 1

IsPlaceholder(x, size) ==
    /\ x # None
    /\ x.tag = "pixmap"
    /\ x.fill = "darkGray"
    /\ x.w = size[1]
    /\ x.h = size[2]

\* the file is there but cv2 raises on it, does not open it, or reads no
\* usable frame from it
Corrupt(f) ==
    /\ f.present
    /\ f.raises \/ ~f.opened \/ ~f.readable \/ f.width <= 0 \/ f.height <= 0

\* C20: for a file that is corrupt or cannot be opened, extract_thumbnail
\* returns a placeholder image of exactly the size asked for, never None.
C20_PlaceholderOfRequestedSize ==
    \A k \in 1..Len(calls) :
        (IsExtract(calls[k]) /\ Corrupt(calls[k].file)) =>
            IsPlaceholder(calls[k].result, calls[k].size)

\* a file that opened but gave no frame was asked for a thumbnail of the preview size
C20_Witness ==
    \E k \in 1..Len(calls) :
        /\ IsExtract(calls[k])
        /\ calls[k].size = <<PREVIEW_W, PREVIEW_H>>
        /\ calls[k].file.present
        /\ calls[k].file.opened
        /\ ~calls[k].file.readable
        /\ calls[k].seek # None
        /\ IsPlaceholder(calls[k].result, <<PREVIEW_W, PREVIEW_H>>)

\* C21: whatever the size of the frame (landscape, portrait, square) and
\* whatever the size asked for, the image extract_thumbnail returns is no
\* wider and no higher than the size asked for.
C21_ThumbnailFits ==
    \A k \in 1..Len(calls) :
        (IsExtract(calls[k]) /\ calls[k].result # None) =>
            /\ calls[k].result.w <= calls[k].size[1]
            /\ calls[k].result.h <= calls[k].size[2]

\* a decoded 4:3 frame, which the resize of line 155 leaves higher than the
\* size asked for, was brought down to it with its proportions kept
C21_Witness ==
    \E k \in 1..Len(calls) :
        /\ IsExtract(calls[k])
        /\ calls[k].file.width = 640
        /\ calls[k].file.height = 480
        /\ calls[k].size = <<THUMB_W, THUMB_H>>
        /\ calls[k].result # None
        /\ calls[k].result.fill = "frame"
        /\ calls[k].result.w = 240
        /\ calls[k].result.h = THUMB_H

\* C22: in every reachable state, with the pool workers and the loader
\* threads inserting into the caches in any interleaving, the metadata
\* cache and the thumbnail cache each hold at most _CACHE_SIZE_LIMIT
\* entries.
C22_CachesWithinLimit ==
    /\ Cardinality(DOMAIN _metadata_cache) <= _CACHE_SIZE_LIMIT
    /\ Cardinality(DOMAIN _thumbnail_cache) <= _CACHE_SIZE_LIMIT

\* C23: when clear_caches() has returned, both caches are empty, and the
\* next call of get_video_metadata or extract_thumbnail, for any key, works
\* its result out from the file again instead of returning a stored one.
C23_ClearForgetsEverything ==
    \A k \in 1..Len(calls) :
        calls[k].fn = "clear_caches" =>
            /\ (k = Len(calls)) =>
                   (DOMAIN _metadata_cache = {} /\ DOMAIN _thumbnail_cache = {})
            /\ (k < Len(calls) /\ IsProbe(calls[k + 1])) =>
                   (calls[k + 1].touched /\ calls[k + 1].opened)
            /\ (k < Len(calls) /\ IsExtract(calls[k + 1])) =>
                   (calls[k + 1].seek # None /\ calls[k + 1].stored)

\* C24: at every moment at most POOL_WORKERS (4) of the extractions
\* scheduled by extract_thumbnail_async are running, however many have
\* been scheduled; the others wait in the queue of the pool.
C24_AtMostFourRunning == Cardinality(pool_running) <= POOL_WORKERS

\* five extractions have been scheduled and none has finished: four are
\* running and the fifth waits
C24_Witness ==
    /\ \E l \in Loaders : Len(hist.submitted[l]) = 5
    /\ Cardinality(pool_running) = POOL_WORKERS
    /\ Len(pool_queue) = 1

\* C25: a load request is never held up for ever by an older loader, even
\* one that never reaches a file boundary: load_videos_in_folder returns
\* after the bounded wait, the loader of the new request is started and,
\* not being superseded itself, emits its final progress.
C25_NewLoadCompletes == (nloads = 2) ~> (mpc = "idle" /\ FinalEmitted(2))

\* the tag links, the note and the reviews of a video id
LinkedTo(id) ==
    {x \in video_tags : x[1] = id} \cup {x \in notes : x[1] = id}
        \cup {x \in reviews : x[1] = id}

\* C26: once delete_files has removed a file from disk, the catalog holds
\* no entry for the path of the file, and the tag links, the note and the
\* reviews of the entry are gone with it.
C26_DeleteRemovesEntry ==
    \A k \in 1..Len(calls) :
        (calls[k].fn = "delete_files" /\ calls[k].removed) =>
            /\ get_video_by_path(calls[k].path) = None
            /\ calls[k].entry # None => LinkedTo(calls[k].entry.id) = {}

\* C27: once move_files has moved a file that has a catalog entry, the
\* entry keeps its id, get_video_by_path finds it under the new path with
\* the new folder and no longer under the old path, and the file is
\* counted among the files moved.
C27_MoveUpdatesEntry ==
    \A k \in 1..Len(calls) :
        (calls[k].fn = "move_files" /\ calls[k].moved /\ calls[k].entry # None) =>
            /\ get_video_by_path(calls[k].dest_path) # None
            /\ get_video_by_path(calls[k].dest_path).id = calls[k].entry.id
            /\ get_video_by_path(calls[k].dest_path).folder_path = calls[k].dest
            /\ get_video_by_path(calls[k].path) = None
            /\ calls[k].success_count = 1

\* C28: the grid is changed only by the GUI thread, in a handler of a
\* delivered event or in its own load_videos_in_folder; a step of a loader
\* thread or of a pool worker never changes it, and the handlers run one at
\* a time, never inside load_videos_in_folder.
C28_GridOnlyByGuiThread ==
    [][grid' # grid =>
          /\ lpc' = lpc
          /\ pool_running' = pool_running
          /\ pool_queue' = pool_queue
          /\ \/ mpc = "reset" /\ mpc' = "listing"
             \/ /\ mpc = "idle" /\ mpc' = "idle"
                /\ events # <<>>
                /\ events' = Tail(events)
                /\ Head(events).type \in {"video_loaded", "thumbnail_loaded"}]_vars

\* the grid holds an item while the loader is still in its loop and a pool
\* worker is extracting a thumbnail
C28_Witness ==
    /\ Len(grid) >= 1
    /\ \E l \in Loaders : InLoop(l)
    /\ pool_running # {}

\* the files a loader found no catalog entry for and probed
NewPaths == UNION {ProbedPaths(l) : l \in Loaders}

\* C29: the entry of a new file is stored before its item-ready event is
\* emitted: every item-ready event waiting in the queue of the GUI thread
\* names a path the catalog has an entry for, every item the handler has
\* built got a catalog row from its lookup, and the event of a file that
\* had no entry carries no thumbnail, watched = false and no tags.
C29_EntryPersistedBeforeItemReady ==
    /\ \A k \in 1..Len(events) :
           events[k].type = "video_loaded" =>
               get_video_by_path(events[k].file_path) # None
    /\ \A i \in 1..Len(grid) : grid[i].video_data # None
    /\ \A l \in Loaders : \A k \in 1..Len(ItemEvents(l)) :
           LET e == ItemEvents(l)[k]
           IN  e.file_path \in NewPaths =>
                   e.thumbnail = None /\ e.watched = FALSE /\ e.tags = {}

\* the item of a file that had no entry is in the grid, with the row the
\* handler looked up
C29_Witness ==
    \E i \in 1..Len(grid) :
        /\ grid[i].file_path \in NewPaths
        /\ grid[i].video_data # None
        /\ grid[i].video_data.file_path = grid[i].file_path

\* the step from cache old to cache new is an insert of key with value:
\* into an emptied cache when old was at the limit, else next to every
\* entry of old
InsertedInto(old, new, key, value) ==
    /\ key \notin DOMAIN old
    /\ key \in DOMAIN new
    /\ new[key] = value
    /\ IF Cardinality(DOMAIN old) >= _CACHE_SIZE_LIMIT
       THEN DOMAIN new = {key}
       ELSE /\ DOMAIN new = DOMAIN old \cup {key}
            /\ \A k \in DOMAIN old : new[k] = old[k]

\* C30: with one thread calling, a result stored in a cache that holds
\* _CACHE_SIZE_LIMIT entries leaves the cache with that one entry, and a
\* result stored in a cache below the limit leaves every other entry in
\* place.
C30_InsertAtLimitEmptiesFirst ==
    [][LET c == calls'[Len(calls')]
       IN  /\ _thumbnail_cache' # _thumbnail_cache =>
                  InsertedInto(_thumbnail_cache, _thumbnail_cache',
                               thumbnail_key(c.path, c.position, c.size[1], c.size[2]),
                               c.result)
           /\ _metadata_cache' # _metadata_cache =>
                  InsertedInto(_metadata_cache, _metadata_cache', c.path, c.result)]_vars

\* the thumbnail cache took an entry below its limit and kept the others;
\* the metadata cache reached its limit and holds the one entry stored
\* after that
C30_Witness ==
    /\ Cardinality(DOMAIN _thumbnail_cache) = _CACHE_SIZE_LIMIT
    /\ \E k \in DOMAIN _thumbnail_cache : k.path = ThumbPath
    /\ Cardinality(DOMAIN _metadata_cache) = 1
    /\ \A p \in DOMAIN _metadata_cache : p \in {ProbePath, ThumbPath}

\* the rows of the grid that show a path
RowsOf(path) == {i \in 1..Len(grid) : grid[i].file_path = path}

\* C31: the handling of a thumbnail-ready event whose path no row of the
\* grid shows leaves the grid as it was; the handling of one whose path
\* some row shows gives the thumbnail to the first such row and changes
\* no other row and no other field of that row.
C31_ThumbnailTouchesFirstMatchOnly ==
    [][(/\ events # <<>>
        /\ Head(events).type = "thumbnail_loaded"
        /\ events' = Tail(events)) =>
          LET e == Head(events)
          IN  IF RowsOf(e.file_path) = {}
              THEN grid' = grid
              ELSE /\ Len(grid') = Len(grid)
                   /\ \A i \in 1..Len(grid) :
                          IF i \in RowsOf(e.file_path) /\ \A j \in RowsOf(e.file_path) : i <= j
                          THEN /\ grid'[i].thumbnail = e.pixmap
                               /\ \A f \in DOMAIN grid[i] \ {"thumbnail"} :
                                      grid'[i][f] = grid[i][f]
                          ELSE grid'[i] = grid[i]]_vars

\* a thumbnail-ready event of a superseded request was handled while the
\* grid showed only other files, and a row of the grid got its thumbnail
\* from the event of its own request
C31_Witness ==
    /\ \E e \in hist.delivered :
           /\ e.type = "thumbnail_loaded"
           /\ e.req < nloads
           /\ RowsOf(e.file_path) = {}
    /\ \E i \in 1..Len(grid) : \E e \in hist.delivered :
           /\ e.type = "thumbnail_loaded"
           /\ e.file_path = grid[i].file_path
           /\ grid[i].thumbnail = e.pixmap

\* nothing is left to run or to deliver: no loader thread is alive, the
\* pool is idle, the GUI thread is in its event loop with an empty queue
Quiescent ==
    /\ mpc = "idle"
    /\ events = <<>>
    /\ \A l \in Loaders : ~is_alive(l)
    /\ pool_queue = <<>>
    /\ pool_running = {}

\* C32: folder B was asked for while the scan of folder A was in flight;
\* once the scan of B has ended and every queued event has been handled,
\* every row of the grid shows a file of folder B.
C32_GridShowsNewFolderOnly ==
    (/\ <<1, 2>> \in hist.superseded
     /\ lfolder[2] = "B"
     /\ FinalEmitted(2)
     /\ Quiescent)
        => \A i \in 1..Len(grid) : grid[i].file_path.folder = "B"

\* C33: no two rows of the grid show the same file path.
C33_OneRowPerPath ==
    \A i, j \in 1..Len(grid) : grid[i].file_path = grid[j].file_path => i = j

\* C34: while the loader thread started by the latest load request is
\* alive, _loading_thread refers to it.
C34_ReferenceToLatestLoader ==
    \A l \in Loaders : (l = nloads /\ is_alive(l)) => _loading_thread = l

\* C35: a scan stores an entry only for a path the catalog has no entry
\* for at that moment, so every entry of the catalog stays as it is (id,
\* watched flag, and with the id the tag links that refer to it).
C35_ScanNeverReplacesEntry ==
    [][/\ \A row \in videos' \ videos : rows_with(videos, row.file_path) = {}
       /\ \A row \in videos : row \in videos']_vars

\* the thumbnail-ready events emitted so far for a task (no event is
\* taken off the queue under SpecPool)
ThumbnailEventsOf(t) ==
    Cardinality({k \in 1..Len(events) :
                    /\ events[k].type = "thumbnail_loaded"
                    /\ events[k].req = t.req
                    /\ events[k].file_path = t.path})

\* C36: every extraction given to the pool is run in the end and leads to
\* exactly one thumbnail-ready event, for its own path: there are never
\* more such events for a path than extractions scheduled for it, and
\* again and again every extraction scheduled so far has emitted its one
\* event.
C36_EveryExtractionCallsBackOnce ==
    /\ [](\A t \in PoolTasks :
             ThumbnailEventsOf(t) <= Count(hist.submitted[t.req], t.path))
    /\ []<>(\A t \in PoolTasks :
               Count(hist.submitted[t.req], t.path) = 1 => ThumbnailEventsOf(t) = 1)

\* five extractions were scheduled, the fifth waited for a worker, and each
\* has emitted its one event
C36_Witness ==
    /\ pool_queue = <<>>
    /\ pool_running = {}
    /\ \E l \in Loaders :
           /\ Len(hist.submitted[l]) > POOL_WORKERS
           /\ \A k \in 1..Len(hist.submitted[l]) :
                  ThumbnailEventsOf([req |-> l, path |-> hist.submitted[l][k]]) = 1

\* C37: a call of load_videos_in_folder with a path that is no directory
\* changes nothing: flag, loader reference, grid, recent folders, event
\* queue and everything else stay as they are.
C37_NotADirectoryChangesNothing ==
    [][(/\ Len(calls') = Len(calls) + 1
        /\ calls'[Len(calls')].fn = "load_videos_in_folder"
        /\ ~isdir(calls'[Len(calls')].path))
          => UNCHANGED vars_program]_vars

\* such a call was made while a loader was alive and the grid had a row;
\* the loader is still referred to and not cancelled, the row still there
C37_Witness ==
    \E k \in 1..Len(calls) :
        /\ calls[k].fn = "load_videos_in_folder"
        /\ calls[k].thread # 0
        /\ calls[k].rows >= 1
        /\ k = Len(calls)
        /\ _loading_thread = calls[k].thread
        /\ is_alive(_loading_thread)
        /\ ~_loading_canceled
        /\ Len(grid) >= 1

\* criteria that let every row pass
EmptyCriteria(params) ==
    /\ params.search_text = <<>>
    /\ params.watched_filter = "All Videos"
    /\ params.tag = "All Tags"

\* the videos the scan of the current folder has put into the grid and
\* that are still on disk
LoadedPaths ==
    {e.file_path : e \in {d \in hist.delivered :
                             d.type = "video_loaded" /\ exists(d.file_path)}}

\* C38: after a filter with restrictive criteria, a filter with empty
\* criteria leaves the grid holding every video that was loaded for the
\* folder and is still on disk.
C38_FilterLosesNothing ==
    [][(/\ Len(calls) = 1
        /\ Len(calls') = MaxFilters
        /\ ~EmptyCriteria(calls[1].params)
        /\ EmptyCriteria(calls'[MaxFilters].params))
          => LoadedPaths \subseteq {grid'[k].file_path : k \in 1..Len(grid')}]_vars

\* two calls of extract_thumbnail with the same cache key
SameKey(c, d) == c.path = d.path /\ c.position = d.position /\ c.size = d.size

\* C39: the placeholder extract_thumbnail returns for a file it could not
\* open or read no frame from is not stored: the thumbnail cache holds
\* decoded frames only, and the next call with the same key decodes
\* again, so that it returns a frame once the file has become a good one.
C39_PlaceholderNeverCached ==
    /\ \A key \in DOMAIN _thumbnail_cache : _thumbnail_cache[key].fill = "frame"
    /\ \A k \in 1..Len(calls) :
           (IsExtract(calls[k]) /\ IsPlaceholder(calls[k].result, calls[k].size)) =>
               ~calls[k].stored
    /\ \A j, k \in 1..Len(calls) :
           (/\ j < k
            /\ IsExtract(calls[j]) /\ IsExtract(calls[k])
            /\ SameKey(calls[j], calls[k])
            /\ \A i \in (j + 1)..(k - 1) :
                   ~(IsExtract(calls[i]) /\ SameKey(calls[j], calls[i]))
            /\ IsPlaceholder(calls[j].result, calls[j].size)
            /\ calls[k].file = RewrittenFile) =>
               /\ calls[k].seek # None
               /\ calls[k].result.fill = "frame"
               /\ calls[k].stored

\* a file that opened but gave no frame got the placeholder; it was
\* rewritten, and the next call with the same key returned a frame
C39_Witness ==
    /\ Len(calls) = MaxCalls
    /\ IsExtract(calls[1])
    /\ calls[1].file.opened /\ ~calls[1].file.readable
    /\ IsPlaceholder(calls[1].result, calls[1].size)
    /\ calls[2].fn = "rewrite"
    /\ IsExtract(calls[MaxCalls])
    /\ SameKey(calls[1], calls[MaxCalls])
    /\ calls[MaxCalls].result.fill = "frame"
    /\ DOMAIN _thumbnail_cache =
           {thumbnail_key(ThumbPath, calls[1].position, calls[1].size[1], calls[1].size[2])}

====
